---- MODULE Spec2Model ----
(***************************************************************************)
(* Model of the symbolic hardware-security verification engine:            *)
(*   - VerilogParser and FormalVerifier                                    *)
(*       (hardware_trojan_detection/formal_verifier.py)                    *)
(*   - PCHBVerifier (async-pchb-verifier/pchb_verifier.py)                 *)
(*                                                                         *)
(* Text is modelled as a sequence of tokens (strings).  White space is     *)
(* not a token, except "NL", the newline that ends a line comment, and     *)
(* "WS", leading white space of a property-file line.  A regular           *)
(* expression of the source is modelled by a matcher over tokens that      *)
(* follows the expression piece by piece.  Numbers are the tokens of       *)
(* DOMAIN NumOf.                                                           *)
(***************************************************************************)
EXTENDS Integers, Sequences, FiniteSets, TLC

\* ------------------------------------------------------------------------
\* Generic helpers
\* ------------------------------------------------------------------------

SetMin(S) == CHOOSE x \in S : \A y \in S : x <= y

Abs(n) == IF n < 0 THEN -n ELSE n

Range(s) == {s[i] : i \in 1..Len(s)}

\* the part of s from i to j (empty when j < i)
Slice(s, i, j) == IF j < i THEN <<>> ELSE SubSeq(s, i, j)

\* the token at position i, or "" past the end
Tok(s, i) == IF i >= 1 /\ i <= Len(s) THEN s[i] ELSE ""

\* the smallest position >= i that holds token t, or 0
IndexFrom(s, t, i) ==
  LET c == {j \in i..Len(s) : s[j] = t}
  IN IF c = {} THEN 0 ELSE SetMin(c)

\* dict[k] = v
Put(f, k, v) == [x \in (DOMAIN f) \cup {k} |-> IF x = k THEN v ELSE f[x]]

EmptyDict == [x \in {} |-> 0]

\* ------------------------------------------------------------------------
\* Tokens
\* ------------------------------------------------------------------------

\* int() of a digit string
NumOf == [n \in {"0", "1", "3", "7"} |->
            CASE n = "0" -> 0 [] n = "1" -> 1 [] n = "3" -> 3 [] n = "7" -> 7]

IsNum(t) == t \in DOMAIN NumOf

Punct == {"", "(", ")", "[", "]", ",", ";", ":", "=", "==", "!=", "<=", "&&",
          "||", "!", "@", "#", "//", "/*", "*/", "NL", "WS"}

\* \w+
IsWord(t) == t \notin Punct

\* the identifiers that have "key", "secret", "if", "case", "end" as a substring
HasKey(t) == t \in {"key", "key_in", "secret_key"}
HasSecret(t) == t \in {"secret", "secret_key"}
HasIf(t) == t \in {"if"}
HasCase(t) == t \in {"case", "endcase"}
HasEnd(t) == t \in {"end", "endcase", "endmodule"}

\* text.split(sep) on tokens
RECURSIVE SplitOn(_, _)
SplitOn(s, sep) ==
  LET i == IndexFrom(s, sep, 1)
  IN IF i = 0 THEN <<s>>
     ELSE <<Slice(s, 1, i - 1)>> \o SplitOn(Slice(s, i + 1, Len(s)), sep)

\* white space is invisible to every \s* of the expressions used after
\* comment removal
DropNL(s) == SelectSeq(s, LAMBDA t : t # "NL")

\* ------------------------------------------------------------------------
\* VerilogParser
\* ------------------------------------------------------------------------

\* re.sub(r'//.*?\n', '\n', content): "." does not match a newline, so a
\* line comment is removed only when a newline follows it
RECURSIVE RemoveLineComments(_)
RemoveLineComments(s) ==
  LET i == IndexFrom(s, "//", 1)
      j == IF i = 0 THEN 0 ELSE IndexFrom(s, "NL", i + 1)
  IN IF i = 0 \/ j = 0 THEN s
     ELSE Slice(s, 1, i - 1) \o <<"NL">>
          \o RemoveLineComments(Slice(s, j + 1, Len(s)))

\* re.sub(r'/\*.*?\*/', '', content, flags=re.DOTALL)
RECURSIVE RemoveBlockComments(_)
RemoveBlockComments(s) ==
  LET i == IndexFrom(s, "/*", 1)
      j == IF i = 0 THEN 0 ELSE IndexFrom(s, "*/", i + 1)
  IN IF i = 0 \/ j = 0 THEN s
     ELSE Slice(s, 1, i - 1) \o RemoveBlockComments(Slice(s, j + 1, Len(s)))

_remove_comments(content) == RemoveBlockComments(RemoveLineComments(content))

\* _parse_width: re.match anchors the range at the START of its argument
_parse_width(width_str) ==
  IF width_str = <<>> THEN 1
  ELSE IF /\ Len(width_str) >= 3
          /\ IsNum(width_str[1])
          /\ width_str[2] = ":"
          /\ IsNum(width_str[3])
       THEN Abs(NumOf[width_str[1]] - NumOf[width_str[3]]) + 1
       ELSE 1

\* re.search(r'module\s+(\w+)\s*\((.*?)\)\s*;', content, re.DOTALL):
\* <<start, close>> of the leftmost match, close being the ")" that a ";"
\* follows; <<0, 0>> when there is none
ModuleMatch(c) ==
  LET ok(i) == /\ c[i] = "module"
               /\ IsWord(Tok(c, i + 1))
               /\ Tok(c, i + 2) = "("
               /\ \E j \in (i + 3)..Len(c) : c[j] = ")" /\ Tok(c, j + 1) = ";"
      starts == {i \in 1..Len(c) : ok(i)}
  IN IF starts = {} THEN <<0, 0>>
     ELSE LET i == SetMin(starts)
          IN <<i, SetMin({j \in (i + 3)..Len(c) :
                             c[j] = ")" /\ Tok(c, j + 1) = ";"})>>

\* re.match(r'(input|output|inout)\s*(?:\[.*?\])?\s*(\w+)', port):
\* <<direction, name>>, or <<>> when the port does not match
PortMatch(port) ==
  IF Tok(port, 1) \notin {"input", "output", "inout"} THEN <<>>
  ELSE IF Tok(port, 2) = "["
       THEN LET ks == {k \in 3..Len(port) :
                          port[k] = "]" /\ IsWord(Tok(port, k + 1))}
            IN IF ks = {} THEN <<>>
               ELSE <<port[1], port[SetMin(ks) + 1]>>
       ELSE IF IsWord(Tok(port, 2)) THEN <<port[1], port[2]>> ELSE <<>>

\* one port of the header: the whole port text goes to _parse_width
PortSignal(port) ==
  [type |-> PortMatch(port)[1],
   width |-> _parse_width(port),
   security |-> IF HasKey(PortMatch(port)[2]) THEN "sensitive" ELSE "normal"]

RECURSIVE AddPorts(_, _)
AddPorts(signals, ports) ==
  IF ports = <<>> THEN signals
  ELSE LET port == Head(ports)
           m == PortMatch(port)
       IN AddPorts(IF port = <<>> \/ m = <<>> THEN signals
                   ELSE Put(signals, m[2], PortSignal(port)),
                   Tail(ports))

\* Variant of NoModule that never raises (the extraction goes on without a
\* header); C11_MissingHeaderFatal fails with it.
NoModuleNever(content) == FALSE

\* whether _extract_module_io raises ValueError
NoModule(content) == ModuleMatch(content)[1] = 0

_extract_module_io(signals, content) ==
  LET m == ModuleMatch(content)
  IN AddPorts(signals, SplitOn(Slice(content, m[1] + 3, m[2] - 1), ","))

\* the end of r'\s*(?:=\s*(.*?)\s*)?;' after the name at n: the position of
\* the ";" that closes the declaration, or 0
WireEnd(c, n) ==
  IF Tok(c, n + 1) = ";" THEN n + 1
  ELSE IF Tok(c, n + 1) = "=" THEN IndexFrom(c, ";", n + 2)
  ELSE 0

\* whether the text after the name at n completes the declaration of kw
DeclCloses(c, n, kw) ==
  IF kw = "reg" THEN Tok(c, n + 1) = ";" ELSE WireEnd(c, n) # 0

\* one match of r'<kw>\s*(?:\[(.*?)\])?\s*(\w+)...' at position i, where
\* c[i] = kw: <<width_str, position of the name>>, or <<>>
DeclAt(c, i, kw) ==
  IF Tok(c, i + 1) = "["
  THEN LET ks == {k \in (i + 2)..Len(c) :
                     c[k] = "]" /\ IsWord(Tok(c, k + 1))
                                /\ DeclCloses(c, k + 1, kw)}
       IN IF ks = {} THEN <<>>
          ELSE <<Slice(c, i + 2, SetMin(ks) - 1), SetMin(ks) + 1>>
  ELSE IF IsWord(Tok(c, i + 1)) /\ DeclCloses(c, i + 1, kw)
       THEN <<<<>>, i + 1>> ELSE <<>>

\* re.finditer(r'reg\s*(?:\[(.*?)\])?\s*(\w+)\s*;', content)
RECURSIVE RegScan(_, _, _)
RegScan(signals, c, i) ==
  IF i > Len(c) THEN signals
  ELSE IF c[i] # "reg" THEN RegScan(signals, c, i + 1)
  ELSE LET d == DeclAt(c, i, "reg")
       IN IF d = <<>> THEN RegScan(signals, c, i + 1)
          ELSE RegScan(Put(signals, c[d[2]],
                           [type |-> "reg",
                            width |-> IF d[1] # <<>> THEN _parse_width(d[1])
                                      ELSE 1,
                            security |-> IF HasSecret(c[d[2]]) THEN "critical"
                                         ELSE "normal"]),
                       c, d[2] + 2)

_extract_registers(signals, content) == RegScan(signals, content, 1)

\* re.finditer(r'wire\s*(?:\[(.*?)\])?\s*(\w+)\s*(?:=\s*(.*?)\s*)?;', content):
\* <<signals, assignments>>
RECURSIVE WireScan(_, _, _, _)
WireScan(signals, assignments, c, i) ==
  IF i > Len(c) THEN <<signals, assignments>>
  ELSE IF c[i] # "wire" THEN WireScan(signals, assignments, c, i + 1)
  ELSE LET d == DeclAt(c, i, "wire")
       IN IF d = <<>> THEN WireScan(signals, assignments, c, i + 1)
          ELSE LET n == d[2]
                   e == WireEnd(c, n)
                   rhs == Slice(c, n + 2, e - 1)
               IN WireScan(Put(signals, c[n],
                               [type |-> "wire",
                                width |-> IF d[1] # <<>>
                                          THEN _parse_width(d[1]) ELSE 1,
                                security |-> "normal"]),
                           IF rhs # <<>>
                           THEN Append(assignments, <<c[n], rhs>>)
                           ELSE assignments,
                           c, e + 1)

_extract_assignments(signals, assignments, content) ==
  WireScan(signals, assignments, content, 1)

_analyze_block_security(logic) ==
  IF /\ \E t \in Range(logic) : HasKey(t)
     /\ \E t \in Range(logic) : HasIf(t) \/ HasCase(t)
  THEN <<[type |-> "key_conditional", severity |-> "critical"]>>
  ELSE <<>>

\* re.finditer(r'always\s*@\s*\((.*?)\)\s*begin(.*?)end', content, re.DOTALL)
RECURSIVE AlwaysScan(_, _, _)
AlwaysScan(blocks, c, i) ==
  IF i > Len(c) THEN blocks
  ELSE IF ~(c[i] = "always" /\ Tok(c, i + 1) = "@" /\ Tok(c, i + 2) = "(")
  THEN AlwaysScan(blocks, c, i + 1)
  ELSE LET ks == {k \in (i + 3)..Len(c) :
                     /\ c[k] = ")"
                     /\ Tok(c, k + 1) = "begin"
                     /\ \E e \in (k + 2)..Len(c) : HasEnd(c[e])}
       IN IF ks = {} THEN AlwaysScan(blocks, c, i + 1)
          ELSE LET k == SetMin(ks)
                   e == SetMin({x \in (k + 2)..Len(c) : HasEnd(c[x])})
                   logic == Slice(c, k + 2, e - 1)
               IN AlwaysScan(Append(blocks,
                               [sensitivity |-> Slice(c, i + 3, k - 1),
                                logic |-> logic,
                                security_issues |->
                                  _analyze_block_security(logic)]),
                             c, e + 1)

_extract_always_blocks(blocks, content) == AlwaysScan(blocks, content, 1)

\* an entry of security_warnings: `about` is the property the description
\* quotes (empty when it quotes none), `error` the text of the exception
Warning(type, severity, about, error) ==
  [type |-> type, severity |-> severity, about |-> about, error |-> error]

\* the position of the first token at or after i that is not white space
SkipWS(c, i) ==
  LET r == {j \in i..Len(c) : c[j] # "NL"}
  IN IF r = {} THEN Len(c) + 1 ELSE SetMin(r)

\* "." does not match a newline: no "NL" strictly between i and j
SameLine(c, i, j) == \A x \in (i + 1)..(j - 1) : c[x] # "NL"

\* r'rare_signal1\s*&&\s*rare_signal2'
MatchRareCondition(c) ==
  \E i \in 1..Len(c) :
     /\ c[i] = "rare_signal1"
     /\ Tok(c, SkipWS(c, i + 1)) = "&&"
     /\ Tok(c, SkipWS(c, SkipWS(c, i + 1) + 1)) = "rare_signal2"

\* r'ciphertext\s*\[.*?\]\s*<=\s*key\[.*?\]'
MatchKeyLeakage(c) ==
  \E i \in 1..Len(c) :
     /\ c[i] = "ciphertext"
     /\ LET b == SkipWS(c, i + 1)
        IN /\ Tok(c, b) = "["
           /\ \E k \in (b + 1)..Len(c) :
                 /\ c[k] = "]"
                 /\ SameLine(c, b, k)
                 /\ LET a == SkipWS(c, k + 1)
                        n == SkipWS(c, a + 1)
                    IN /\ Tok(c, a) = "<="
                       /\ Tok(c, n) = "key"
                       /\ Tok(c, n + 1) = "["
                       /\ \E q \in (n + 2)..Len(c) :
                             c[q] = "]" /\ SameLine(c, n + 1, q)

\* r'if\s*\(\s*!\s*reset\s*\)\s*begin.*?secret'
MatchHiddenState(c) ==
  \E i \in 1..Len(c) :
     LET p1 == SkipWS(c, i + 1)
         p2 == SkipWS(c, p1 + 1)
         p3 == SkipWS(c, p2 + 1)
         p4 == SkipWS(c, p3 + 1)
         p5 == SkipWS(c, p4 + 1)
     IN /\ c[i] = "if"
        /\ Tok(c, p1) = "("
        /\ Tok(c, p2) = "!"
        /\ Tok(c, p3) = "reset"
        /\ Tok(c, p4) = ")"
        /\ Tok(c, p5) = "begin"
        /\ \E q \in (p5 + 1)..Len(c) : HasSecret(c[q]) /\ SameLine(c, p5, q)

\* self.trojan_patterns, in the order of the dict
TrojanPatternTypes == <<"rare_condition", "key_leakage", "hidden_state">>

PatternFound(pattern_type, content) ==
  CASE pattern_type = "rare_condition" -> MatchRareCondition(content)
    [] pattern_type = "key_leakage" -> MatchKeyLeakage(content)
    [] pattern_type = "hidden_state" -> MatchHiddenState(content)

\* _detect_suspicious_patterns: the warnings it appends for this text
_detect_suspicious_patterns(content) ==
  LET hit(i) == IF PatternFound(TrojanPatternTypes[i], content)
                THEN <<Warning(TrojanPatternTypes[i], "high", <<>>, "")>>
                ELSE <<>>
  IN hit(1) \o hit(2) \o hit(3)

ParseErrorWarning ==
  Warning("parse_error", "high", <<>>, "No module declaration found")

\* VerilogParser.__init__, with the position of parse() in pc and the text
\* being parsed in content
NewParser ==
  [signals |-> EmptyDict,
   assignments |-> <<>>,
   always_blocks |-> <<>>,
   security_warnings |-> <<>>,
   file |-> <<>>,
   content |-> <<>>,
   pc |-> "idle",
   ret |-> "none"]

\* parse(): the file is read (file keeps the text as read)
ParseOpen(p, design) ==
  [p EXCEPT !.file = design, !.content = design, !.pc = "detect",
            !.ret = "none"]

\* parse(): self._detect_suspicious_patterns(content), on the text as read
ParseDetect(p) ==
  [p EXCEPT !.security_warnings = @ \o _detect_suspicious_patterns(p.content),
            !.pc = "strip"]

\* parse(): content = self._remove_comments(content)
ParseStrip(p) ==
  [p EXCEPT !.content = DropNL(_remove_comments(p.content)), !.pc = "io"]

\* parse(): self._extract_module_io(content); ValueError goes to the handler
\* of parse(), which appends parse_error and returns False
ParseModuleIO(p) ==
  IF NoModule(p.content)
  THEN [p EXCEPT !.security_warnings = Append(@, ParseErrorWarning),
                 !.pc = "idle", !.ret = "False"]
  ELSE [p EXCEPT !.signals = _extract_module_io(@, p.content), !.pc = "regs"]

\* parse(): self._extract_registers(content)
ParseRegisters(p) ==
  [p EXCEPT !.signals = _extract_registers(@, p.content), !.pc = "wires"]

\* parse(): self._extract_assignments(content)
ParseAssignments(p) ==
  LET r == _extract_assignments(p.signals, p.assignments, p.content)
  IN [p EXCEPT !.signals = r[1], !.assignments = r[2], !.pc = "always"]

\* parse(): self._extract_always_blocks(content); return True
ParseAlways(p) ==
  [p EXCEPT !.always_blocks = _extract_always_blocks(@, p.content),
            !.pc = "idle", !.ret = "True"]

\* the step of parse() at p.pc
ParseStep(p) ==
  CASE p.pc = "detect" -> ParseDetect(p)
    [] p.pc = "strip" -> ParseStrip(p)
    [] p.pc = "io" -> ParseModuleIO(p)
    [] p.pc = "regs" -> ParseRegisters(p)
    [] p.pc = "wires" -> ParseAssignments(p)
    [] p.pc = "always" -> ParseAlways(p)

\* parse() from the first statement to its return
RECURSIVE ParseRun(_)
ParseRun(p) == IF p.pc = "idle" THEN p ELSE ParseRun(ParseStep(p))

parse(p, design) == ParseRun(ParseOpen(p, design))

\* ------------------------------------------------------------------------
\* Designs: the texts given to load_design
\* ------------------------------------------------------------------------

DesignPorts ==
  <<"module", "m", "(", "input", "clk", ",",
    "input", "[", "7", ":", "0", "]", "data", ",", "output", "done", ")", ";",
    "endmodule">>

DesignRare ==
  <<"module", "t", "(", "input", "clk", ",", "input", "rare_signal1", ",",
    "input", "rare_signal2", ",", "output", "done", ")", ";",
    "wire", "trig", "=", "rare_signal1", "&&", "rare_signal2", ";",
    "endmodule">>

DesignRareWide ==
  <<"module", "w", "(", "input", "rare_signal1", ",", "input", "en", ")", ";",
    "reg", "[", "3", ":", "0", "]", "rare_signal2", ";",
    "endmodule">>

DesignAes ==
  <<"module", "aes", "(", "input", "clk", ",", "output", "done", ")", ";",
    "reg", "[", "7", ":", "0", "]", "key", ";",
    "reg", "[", "7", ":", "0", "]", "ciphertext", ";",
    "always", "@", "(", "posedge", "clk", ")", "begin",
    "if", "(", "clk", ")",
    "ciphertext", "[", "7", ":", "0", "]", "<=", "key", "[", "7", ":", "0", "]",
    ";", "end",
    "endmodule">>

DesignNoModule ==
  <<"reg", "[", "7", ":", "0", "]", "data", ";",
    "wire", "clk", ";">>

DesignCommented ==
  <<"/*", "rare_signal1", "&&", "rare_signal2", "*/",
    "module", "c", "(", "input", "clk", ",", "output", "[", "3", ":", "0", "]",
    "done", ")", ";",
    "//", "reg", "data", ";", "NL",
    "reg", "[", "1", ":", "0", "]", "done", ";",
    "wire", "[", "1", ":", "0", "]", "clk", ";",
    "endmodule">>

Designs == {DesignPorts, DesignRare, DesignRareWide, DesignAes,
            DesignNoModule, DesignCommented}

\* ------------------------------------------------------------------------
\* The solver library (z3), as far as the verifiers use it.
\*
\* An expression is a tuple: <<"var", name, width>> (Bool(name) when width
\* is 1, BitVec(name, width) otherwise), <<"val", n>>, <<"not", e>>,
\* <<"eq", l, r>>, <<"ne", l, r>>, <<"and", l, r>>, <<"or", l, r>>,
\* <<"implies", l, r>>, <<"forall", names, e>>, <<"exists", names, e>>.
\* A value is a number; the Booleans are 0 and 1.  An assignment maps the
\* names of variables to values.
\* ------------------------------------------------------------------------

RECURSIVE Pow2(_)
Pow2(w) == IF w = 0 THEN 1 ELSE 2 * Pow2(w - 1)

B2N(b) == IF b THEN 1 ELSE 0

\* the variables <<name, width>> that occur free in e
RECURSIVE FreeVars(_)
FreeVars(e) ==
  CASE e[1] = "var" -> {<<e[2], e[3]>>}
    [] e[1] = "val" -> {}
    [] e[1] = "not" -> FreeVars(e[2])
    [] e[1] \in {"eq", "ne", "and", "or", "implies"} ->
         FreeVars(e[2]) \cup FreeVars(e[3])
    [] e[1] \in {"forall", "exists"} ->
         {v \in FreeVars(e[3]) : v[1] \notin Range(e[2])}

\* the variables <<name, width>> of e, bound ones included
RECURSIVE AllVars(_)
AllVars(e) ==
  CASE e[1] = "var" -> {<<e[2], e[3]>>}
    [] e[1] = "val" -> {}
    [] e[1] = "not" -> AllVars(e[2])
    [] e[1] \in {"eq", "ne", "and", "or", "implies"} ->
         AllVars(e[2]) \cup AllVars(e[3])
    [] e[1] \in {"forall", "exists"} -> AllVars(e[3])

\* every assignment of the variables vs (a set of <<name, width>>)
Assignments(vs) ==
  LET names == {v[1] : v \in vs}
      top == IF vs = {} THEN 1
             ELSE CHOOSE m \in {Pow2(v[2]) : v \in vs} :
                    \A v \in vs : Pow2(v[2]) <= m
  IN {a \in [names -> 0..(top - 1)] : \A v \in vs : a[v[1]] < Pow2(v[2])}

\* assignment a, with b where b is defined
Override(a, b) ==
  [n \in (DOMAIN a) \cup (DOMAIN b) |-> IF n \in DOMAIN b THEN b[n] ELSE a[n]]

\* the value of e under assignment a
RECURSIVE Z3Eval(_, _)
Z3Eval(e, a) ==
  CASE e[1] = "var" -> a[e[2]]
    [] e[1] = "val" -> e[2]
    [] e[1] = "not" -> 1 - Z3Eval(e[2], a)
    [] e[1] = "eq" -> B2N(Z3Eval(e[2], a) = Z3Eval(e[3], a))
    [] e[1] = "ne" -> B2N(Z3Eval(e[2], a) # Z3Eval(e[3], a))
    [] e[1] = "and" -> B2N(Z3Eval(e[2], a) = 1 /\ Z3Eval(e[3], a) = 1)
    [] e[1] = "or" -> B2N(Z3Eval(e[2], a) = 1 \/ Z3Eval(e[3], a) = 1)
    [] e[1] = "implies" -> B2N(Z3Eval(e[2], a) = 0 \/ Z3Eval(e[3], a) = 1)
    [] e[1] = "forall" ->
         B2N(\A b \in Assignments({v \in AllVars(e[3]) : v[1] \in Range(e[2])}) :
               Z3Eval(e[3], Override(a, b)) = 1)
    [] e[1] = "exists" ->
         B2N(\E b \in Assignments({v \in AllVars(e[3]) : v[1] \in Range(e[2])}) :
               Z3Eval(e[3], Override(a, b)) = 1)

\* the free variables of a sequence of constraints
ConstraintVars(cs) == UNION {FreeVars(cs[i]) : i \in 1..Len(cs)}

\* the models of a sequence of constraints
Models(cs) ==
  {a \in Assignments(ConstraintVars(cs)) :
     \A i \in 1..Len(cs) : Z3Eval(cs[i], a) = 1}

\* Solver.check() == sat
Z3Sat(cs) == Models(cs) # {}

\* Bool(name) / BitVec(name, width)
Z3Var(name, width) == <<"var", name, width>>

\* str() of a number
DecStr(n) ==
  IF n \in 0..15
  THEN <<"0", "1", "2", "3", "4", "5", "6", "7", "8", "9", "10", "11", "12",
         "13", "14", "15">>[n + 1]
  ELSE "big"

\* str() of a value of a variable of this width
Z3Str(value, width) ==
  IF width = 1 THEN (IF value = 1 THEN "True" ELSE "False") ELSE DecStr(value)

\* ------------------------------------------------------------------------
\* eval(expr, {'__builtins__': None}, z3_vars) on the expressions of the
\* property files: an atom (a name, True, False, a number), a comparison
\* atom == atom or atom != atom, or a tuple of these separated by commas.
\* Every other text of the property files is a syntax error of Python
\* ("&&", "||", "!", a dangling operator, an open parenthesis, the empty
\* text).  The result is <<"err", message>> or <<"ok", value>>, a value
\* being <<"z3", expression, width>>, <<"pybool", n>>, <<"pyint", n>> or
\* <<"tuple", values>>.
\* ------------------------------------------------------------------------

IsSyntaxError(r) == r[1] = "err" /\ r[2] = "invalid syntax"

PyAtom(t, z3_vars) ==
  CASE t = "True" -> <<"ok", <<"pybool", 1>>>>
    [] t = "False" -> <<"ok", <<"pybool", 0>>>>
    [] IsNum(t) -> <<"ok", <<"pyint", NumOf[t]>>>>
    [] IsWord(t) /\ t \notin {"True", "False"} /\ ~IsNum(t) ->
         IF t \in DOMAIN z3_vars
         THEN <<"ok", <<"z3", z3_vars[t], z3_vars[t][3]>>>>
         ELSE <<"err", "name not defined">>
    [] OTHER -> <<"err", "invalid syntax">>

\* ExprRef.__eq__ / __ne__ (op is "eq" or "ne") after _coerce_exprs, or the
\* comparison of two Python values
PyCompare(op, x, y) ==
  CASE x[1] = "z3" /\ y[1] = "z3" ->
         IF x[3] = y[3] THEN <<"ok", <<"z3", <<op, x[2], y[2]>>, 1>>>>
         ELSE <<"err", "sort mismatch">>
    [] x[1] = "z3" /\ y[1] = "pybool" ->
         <<"ok", <<"z3", <<op, x[2], <<"val", y[2]>>>>, 1>>>>
    [] x[1] = "pybool" /\ y[1] = "z3" ->
         <<"ok", <<"z3", <<op, y[2], <<"val", x[2]>>>>, 1>>>>
    [] x[1] = "z3" /\ y[1] = "pyint" ->
         IF x[3] = 1 THEN <<"err", "Boolean expression expected">>
         ELSE <<"ok", <<"z3", <<op, x[2], <<"val", y[2] % Pow2(x[3])>>>>, 1>>>>
    [] x[1] = "pyint" /\ y[1] = "z3" ->
         IF y[3] = 1 THEN <<"err", "Boolean expression expected">>
         ELSE <<"ok", <<"z3", <<op, y[2], <<"val", x[2] % Pow2(y[3])>>>>, 1>>>>
    [] OTHER ->
         <<"ok", <<"pybool", IF op = "eq" THEN B2N(x[2] = y[2])
                             ELSE B2N(x[2] # y[2])>>>>

PySimple(ts, z3_vars) ==
  LET Compare(x, y) ==
        IF IsSyntaxError(x) \/ IsSyntaxError(y)
        THEN <<"err", "invalid syntax">>
        ELSE IF x[1] = "err" THEN x
        ELSE IF y[1] = "err" THEN y
        ELSE PyCompare(IF ts[2] = "==" THEN "eq" ELSE "ne", x[2], y[2])
  IN IF Len(ts) = 1 THEN PyAtom(ts[1], z3_vars)
     ELSE IF Len(ts) = 3 /\ ts[2] \in {"==", "!="}
     THEN Compare(PyAtom(ts[1], z3_vars), PyAtom(ts[3], z3_vars))
     ELSE <<"err", "invalid syntax">>

\* the syntax is checked for the whole text before any part is evaluated;
\* the parts of a tuple are evaluated from left to right
PyEval(ts, z3_vars) ==
  LET Tuple(n, r) ==
        IF n = 0 \/ \E i \in 1..n : IsSyntaxError(r[i])
        THEN <<"err", "invalid syntax">>
        ELSE IF \E i \in 1..n : r[i][1] = "err"
        THEN r[SetMin({i \in 1..n : r[i][1] = "err"})]
        ELSE <<"ok", <<"tuple", [i \in 1..n |-> r[i][2]]>>>>
      Parts(parts, n) == Tuple(n, [i \in 1..n |-> PySimple(parts[i], z3_vars)])
      Split(parts) ==
        Parts(parts, IF parts[Len(parts)] = <<>> THEN Len(parts) - 1
                     ELSE Len(parts))
  IN IF "," \notin Range(ts) THEN PySimple(ts, z3_vars)
     ELSE Split(SplitOn(ts, ","))

\* BoolSort().cast(value): <<"ok", constraint>> or <<"err", message>>
BoolCast(value) ==
  CASE value[1] = "pybool" -> <<"ok", <<"val", value[2]>>>>
    [] value[1] = "z3" /\ value[3] = 1 -> <<"ok", value[2]>>
    [] value[1] = "z3" /\ value[3] # 1 ->
         <<"err", "Value cannot be converted into a Z3 Boolean value">>
    [] OTHER -> <<"err", "True, False or Z3 Boolean expression expected">>

\* Solver.add(value): _get_args unpacks a tuple, and the arguments are
\* cast and asserted one after the other, so the arguments before the
\* first one that cannot be cast stay asserted when add raises.
\* <<"ok" or "err", solver after, message>>
RECURSIVE AssertEach(_, _)
AssertEach(solver, values) ==
  LET Assert1(c) ==
        IF c[1] = "err" THEN <<"err", solver, c[2]>>
        ELSE AssertEach(Append(solver, c[2]), Tail(values))
  IN IF values = <<>> THEN <<"ok", solver, "">>
     ELSE Assert1(BoolCast(Head(values)))

SolverAdd(solver, value) ==
  AssertEach(solver, IF value[1] = "tuple" THEN value[2] ELSE <<value>>)

\* ------------------------------------------------------------------------
\* FormalVerifier
\* ------------------------------------------------------------------------

\* FormalVerifier.__init__.  results['signals'] and
\* results['security_warnings'] start as objects of their own (own_warnings)
\* and are the parser's objects once load_design has run (signals_shared,
\* warnings_shared).  has_properties is hasattr(self, 'properties').  pc is
\* the position inside verify(), idx the number of properties the loop of
\* _verify_generic_properties has processed, ret what the last call
\* returned ("raised" when an exception left it); loads, prop_loads,
\* verifies and reports count the calls of load_design and load_properties,
\* the runs of verify() and the reports written.
NewVerifier ==
  [parser |-> NewParser,
   signals_shared |-> FALSE,
   own_warnings |-> <<>>,
   warnings_shared |-> FALSE,
   properties_checked |-> 0,
   violations_found |-> 0,
   trojan_findings |-> <<>>,
   has_properties |-> FALSE,
   properties |-> <<>>,
   solver |-> <<>>,
   z3_vars |-> EmptyDict,
   pc |-> "idle",
   idx |-> 0,
   ret |-> "none",
   loads |-> 0,
   prop_loads |-> 0,
   verifies |-> 0,
   reports |-> 0]

\* self.results['signals']
ResultSignals(v) == IF v.signals_shared THEN v.parser.signals ELSE EmptyDict

\* self.results['security_warnings']
ResultWarnings(v) ==
  IF v.warnings_shared THEN v.parser.security_warnings ELSE v.own_warnings

\* Variant of AppendWarning that also counts the warning in
\* violations_found; C14_ViolationCount fails with it.
AppendWarningCounted(v, w) ==
  IF v.warnings_shared
  THEN [v EXCEPT !.parser.security_warnings = Append(@, w),
                 !.violations_found = @ + 1]
  ELSE [v EXCEPT !.own_warnings = Append(@, w), !.violations_found = @ + 1]

\* self.results['security_warnings'].append(w)
AppendWarning(v, w) ==
  IF v.warnings_shared
  THEN [v EXCEPT !.parser.security_warnings = Append(@, w)]
  ELSE [v EXCEPT !.own_warnings = Append(@, w)]

load_design(v, design) ==
  LET p == parse(v.parser, design)
  IN [v EXCEPT !.parser = p,
               !.signals_shared = TRUE,
               !.warnings_shared = TRUE,
               !.ret = p.ret,
               !.loads = @ + 1]

\* p.strip() of a line of the property file
RECURSIVE Strip(_)
Strip(line) ==
  IF line = <<>> THEN line
  ELSE IF Head(line) = "WS" THEN Strip(Tail(line))
  ELSE IF line[Len(line)] = "WS" THEN Strip(Slice(line, 1, Len(line) - 1))
  ELSE line

\* [p.strip() for p in f.readlines() if p.strip() and not p.startswith('#')]
RECURSIVE ReadProperties(_)
ReadProperties(lines) ==
  IF lines = <<>> THEN <<>>
  ELSE LET p == Head(lines)
       IN (IF Strip(p) # <<>> /\ Tok(p, 1) # "#" THEN <<Strip(p)>> ELSE <<>>)
          \o ReadProperties(Tail(lines))

\* a property file is [exists |-> BOOLEAN, lines |-> its lines]
load_properties(v, property_file) ==
  IF property_file.exists
  THEN [v EXCEPT !.properties = ReadProperties(property_file.lines),
                 !.has_properties = TRUE,
                 !.ret = "True",
                 !.prop_loads = @ + 1]
  ELSE [AppendWarning(v, Warning("property_error", "high", <<>>,
                                 "No such file or directory"))
          EXCEPT !.ret = "False", !.prop_loads = @ + 1]

_create_z3_vars(signals) ==
  [name \in DOMAIN signals |-> Z3Var(name, signals[name].width)]

\* What one _verify_* call does: whether it raised (and the text of the
\* exception), whether it counted a violation, and the solver it leaves.
Raises(solver, error) ==
  [raised |-> TRUE, error |-> error, violation |-> FALSE, solver |-> solver]

\* self.solver.reset()
SolverReset(solver) == <<>>

\* Variant of CheckAndReset with the opposite polarity (a violation when
\* the solver answers sat); C12_UnsatPolarity fails with it.
CheckAndResetOnSat(solver) ==
  [raised |-> FALSE, error |-> "", violation |-> Z3Sat(solver),
   solver |-> <<>>]

\* if self.solver.check() == unsat: violations_found += 1; self.solver.reset()
CheckAndReset(solver) ==
  [raised |-> FALSE, error |-> "", violation |-> ~Z3Sat(solver),
   solver |-> SolverReset(solver)]

\* re.match(r'<kw>\s*\(\s*\[(.*?)\]\s*,\s*(.*?)\s*\)', prop), kw being
\* ForAll or Exists: <<vars_str, expr>>, or <<>> when prop does not match
QuantMatch(prop, kw) ==
  IF ~(Tok(prop, 1) = kw /\ Tok(prop, 2) = "(" /\ Tok(prop, 3) = "[") THEN <<>>
  ELSE LET ks == {k \in 4..Len(prop) :
                     /\ prop[k] = "]"
                     /\ Tok(prop, k + 1) = ","
                     /\ IndexFrom(prop, ")", k + 2) # 0}
       IN IF ks = {} THEN <<>>
          ELSE LET k == SetMin(ks)
               IN <<Slice(prop, 4, k - 1),
                    Slice(prop, k + 2, IndexFrom(prop, ")", k + 2) - 1)>>

\* Variant of QuantVariables without the filter `in z3_vars` (every listed
\* name is kept); C4_QuantifierScoping fails with it.
QuantVariablesUnfiltered(vars_str, z3_vars) ==
  LET parts == SplitOn(vars_str, ",")
      keep == SelectSeq(parts, LAMBDA part : Len(part) = 1)
  IN [i \in 1..Len(keep) |-> keep[i][1]]

\* [v.strip() for v in vars_str.split(',') if v.strip() in z3_vars]
QuantVariables(vars_str, z3_vars) ==
  LET parts == SplitOn(vars_str, ",")
      keep == SelectSeq(parts, LAMBDA part :
                Len(part) = 1 /\ part[1] \in DOMAIN z3_vars)
  IN [i \in 1..Len(keep) |-> keep[i][1]]

\* the body of _verify_forall and of _verify_exists, which differ in the
\* keyword and the quantifier only (node is "forall" or "exists")
VerifyQuantified(prop, z3_vars, solver, kw, node) ==
  LET Add(variables, b) ==
        IF b[1] = "err" THEN Raises(solver, b[2])
        ELSE CheckAndReset(Append(solver, <<node, variables, b[2]>>))
      Quantify(variables, body) ==
        IF variables = <<>> THEN Raises(solver, "No valid variables")
        ELSE IF body[1] = "err" THEN Raises(solver, body[2])
        ELSE Add(variables, BoolCast(body[2]))
      Matched(m) ==
        IF m = <<>> THEN Raises(solver, "Malformed expression")
        ELSE Quantify(QuantVariables(m[1], z3_vars), PyEval(m[2], z3_vars))
  IN Matched(QuantMatch(prop, kw))

_verify_forall(prop, z3_vars, solver) ==
  VerifyQuantified(prop, z3_vars, solver, "ForAll", "forall")

\* Variant of _verify_exists that binds the variables universally;
\* C28_ExistsPolarity fails with it.
VerifyExistsAsForAll(prop, z3_vars, solver) ==
  VerifyQuantified(prop, z3_vars, solver, "Exists", "forall")

_verify_exists(prop, z3_vars, solver) ==
  VerifyQuantified(prop, z3_vars, solver, "Exists", "exists")

\* re.split(r'Implies\s*\(\s*', prop, maxsplit=1): the position of the
\* first "Implies" that a "(" follows, or 0
ImpliesAt(prop) ==
  LET c == {i \in 1..Len(prop) : prop[i] = "Implies" /\ Tok(prop, i + 1) = "("}
  IN IF c = {} THEN 0 ELSE SetMin(c)

\* parts[1].rsplit(')', 1)[0]: the text before the last ")"
BeforeLastParen(ts) ==
  LET c == {i \in 1..Len(ts) : ts[i] = ")"}
  IN IF c = {} THEN ts
     ELSE Slice(ts, 1, (CHOOSE i \in c : \A j \in c : j <= i) - 1)

\* the antecedent is the text BEFORE "Implies(", the consequent the text
\* between "Implies(" and the last ")"
_verify_implies(prop, z3_vars, solver) ==
  LET Add(a, b) ==
        IF a[1] = "err" THEN Raises(solver, a[2])
        ELSE IF b[1] = "err" THEN Raises(solver, b[2])
        ELSE CheckAndReset(Append(solver, <<"implies", a[2], b[2]>>))
      Evaluated(ant, cons) ==
        IF ant[1] = "err" THEN Raises(solver, ant[2])
        ELSE IF cons[1] = "err" THEN Raises(solver, cons[2])
        ELSE Add(BoolCast(ant[2]), BoolCast(cons[2]))
      Parts(antecedent, consequent) ==
        Evaluated(PyEval(antecedent, z3_vars), PyEval(consequent, z3_vars))
      Split(at) ==
        IF at = 0 THEN Raises(solver, "Malformed expression")
        ELSE Parts(Slice(prop, 1, at - 1),
                   BeforeLastParen(Slice(prop, at + 2, Len(prop))))
  IN Split(ImpliesAt(prop))

_verify_expression(prop, z3_vars, solver) ==
  LET Added(added) ==
        IF added[1] = "err" THEN Raises(added[2], added[3])
        ELSE CheckAndReset(added[2])
      Evaluated(expr) ==
        IF expr[1] = "err" THEN Raises(solver, expr[2])
        ELSE Added(SolverAdd(solver, expr[2]))
  IN Evaluated(PyEval(prop, z3_vars))

\* the dispatch of _verify_generic_properties on the text of the property
PropertyKind(prop) ==
  CASE "ForAll" \in Range(prop) -> "forall"
    [] "Exists" \in Range(prop) -> "exists"
    [] "Implies" \in Range(prop) -> "implies"
    [] OTHER -> "plain"

VerifyProperty(prop, z3_vars, solver) ==
  LET Dispatch(kind) ==
        CASE kind = "forall" -> _verify_forall(prop, z3_vars, solver)
          [] kind = "exists" -> _verify_exists(prop, z3_vars, solver)
          [] kind = "implies" -> _verify_implies(prop, z3_vars, solver)
          [] OTHER -> _verify_expression(prop, z3_vars, solver)
  IN Dispatch(PropertyKind(prop))

\* Variant of PropertyError with another severity; C3_Isolation fails with
\* it.
PropertyErrorHigh(prop, error) == Warning("property_error", "high", prop, error)

\* the warning the handler of _verify_generic_properties appends
PropertyError(prop, error) == Warning("property_error", "medium", prop, error)

\* verify(), up to the first property
VerifyStart(v) ==
  IF ~v.has_properties THEN [v EXCEPT !.ret = "False"]
  ELSE [v EXCEPT !.z3_vars = _create_z3_vars(v.parser.signals),
                 !.pc = IF v.properties = <<>> THEN "rare" ELSE "props",
                 !.idx = 0,
                 !.ret = "none",
                 !.verifies = @ + 1]

\* one iteration of the loop of _verify_generic_properties
VerifyNextProperty(v) ==
  LET Handled(prop, o, w) ==
        IF o.raised THEN AppendWarning(w, PropertyError(prop, o.error)) ELSE w
      Counted(prop, o) ==
        Handled(prop, o,
                [v EXCEPT !.properties_checked = @ + 1,
                          !.violations_found = @ + B2N(o.violation),
                          !.solver = o.solver,
                          !.idx = @ + 1,
                          !.pc = IF v.idx + 1 = Len(v.properties) THEN "rare"
                                 ELSE "props"])
      Iteration(prop) == Counted(prop, VerifyProperty(prop, v.z3_vars, v.solver))
  IN Iteration(v.properties[v.idx + 1])

\* Variant of EqualsTrue that compares with False; C5_RareTrigger fails
\* with it.
EqualsFalse(var) == <<"eq", var, <<"val", 0>>>>

\* z3_vars[name] == True: the Python True is cast to the sort of the
\* variable, BoolVal(True) or BitVecVal(1, width)
EqualsTrue(var) == <<"eq", var, <<"val", 1>>>>

\* Variant of RareFinding whose evidence is the whole model, the values of
\* the variables the check does not fix included; C10_Determinism fails
\* with it.
RareFindingWholeModel(z3_vars, model) ==
  [type |-> "rare_trigger", severity |-> "critical", signals |-> model]

\* the finding of check 1 for a model of the solver
RareFinding(z3_vars, model) ==
  [type |-> "rare_trigger",
   severity |-> "critical",
   signals |->
     [n \in {"rare_signal1", "rare_signal2"} |->
        Z3Str(model[n], z3_vars[n][3])]]

\* _verify_trojan_specific, check 1 (rare signal activation): the states
\* it can leave, one for each model the solver may return
VerifyRare(v) ==
  IF ~({"rare_signal1", "rare_signal2"} \subseteq DOMAIN v.z3_vars)
  THEN {[v EXCEPT !.pc = "leak"]}
  ELSE LET rare_cond == <<"and", EqualsTrue(v.z3_vars["rare_signal1"]),
                                 EqualsTrue(v.z3_vars["rare_signal2"])>>
           solver == Append(v.solver, rare_cond)
       IN IF Z3Sat(solver)
          THEN {[v EXCEPT !.trojan_findings =
                            Append(@, RareFinding(v.z3_vars, model)),
                          !.violations_found = @ + 1,
                          !.solver = SolverReset(solver),
                          !.pc = "leak"] : model \in Models(solver)}
          ELSE {[v EXCEPT !.solver = SolverReset(solver), !.pc = "leak"]}

\* value[7:0]: the expression classes of the library (ExprRef, BoolRef,
\* BitVecRef) define no __getitem__, so subscripting one raises TypeError
Z3GetItem(value) == <<"err", "object is not subscriptable">>

\* the finding of check 2 for a model of the solver
LeakFinding(model) ==
  [type |-> "key_leakage",
   severity |-> "critical",
   bits |-> "ciphertext[7:0]",
   value |-> DecStr(model["ciphertext"])]

\* _verify_trojan_specific, check 2 (key leakage): the states it can leave.
\* No handler of verify() catches what it raises.
VerifyLeak(v) ==
  IF ~({"ciphertext", "key"} \subseteq DOMAIN v.z3_vars)
  THEN {[v EXCEPT !.pc = "report"]}
  ELSE LET ct == Z3GetItem(v.z3_vars["ciphertext"])
           key == Z3GetItem(v.z3_vars["key"])
       IN IF ct[1] = "err" \/ key[1] = "err"
          THEN {[v EXCEPT !.pc = "idle", !.ret = "raised"]}
          ELSE LET solver == Append(v.solver, <<"eq", ct[2], key[2]>>)
               IN IF Z3Sat(solver)
                  THEN {[v EXCEPT !.trojan_findings =
                                    Append(@, LeakFinding(model)),
                                  !.violations_found = @ + 1,
                                  !.solver = SolverReset(solver),
                                  !.pc = "report"] : model \in Models(solver)}
                  ELSE {[v EXCEPT !.solver = SolverReset(solver),
                                  !.pc = "report"]}

\* verify(): self._generate_report(); return True
VerifyReport(v) ==
  [v EXCEPT !.reports = @ + 1, !.pc = "idle", !.ret = "True"]

\* the states the step of verify() at v.pc can leave
VerifyStep(v) ==
  CASE v.pc = "props" -> {VerifyNextProperty(v)}
    [] v.pc = "rare" -> VerifyRare(v)
    [] v.pc = "leak" -> VerifyLeak(v)
    [] v.pc = "report" -> {VerifyReport(v)}

\* ------------------------------------------------------------------------
\* Property files: the texts given to load_properties
\* ------------------------------------------------------------------------

PropEq == <<"clk", "==", "done">>
PropNe == <<"clk", "!=", "clk">>
PropAndAnd == <<"clk", "&&", "done">>
PropForAll == <<"ForAll", "(", "[", "clk", "]", ",", "clk", "==", "done", ")">>
PropExists == <<"Exists", "(", "[", "clk", "]", ",", "clk", "!=", "done", ")">>
PropImplies == <<"Implies", "(", "clk", ",", "done", ")">>
PropInfixImplies == <<"clk", "Implies", "(", "done", ")">>
PropTuple == <<"clk", "!=", "done", ",", "1">>

PropertyLines == {PropEq, PropNe, PropAndAnd, PropForAll, PropExists,
                  PropImplies, PropInfixImplies, PropTuple}

\* the longest property file
MaxProps == 2

SeqsUpTo(S, n) == UNION {[1..k -> S] : k \in 0..n}

\* lines that are no property: a line of white space, a comment, and a
\* comment after leading white space
LineBlank == <<"WS">>
LineComment == <<"#", "note">>
LineIndentedComment == <<"WS", "#", "note">>

\* the files that mix these lines with a property
CommentedFiles ==
  {[exists |-> TRUE, lines |-> ls] :
     ls \in SeqsUpTo({PropEq, LineBlank, LineComment, LineIndentedComment},
                     MaxProps)}

\* an Exists property that no value satisfies, and the files of Exists
\* properties
PropExistsNone ==
  <<"Exists", "(", "[", "clk", "]", ",", "clk", "!=", "clk", ")">>

ExistsFiles ==
  {[exists |-> TRUE, lines |-> ls] :
     ls \in SeqsUpTo({PropExists, PropExistsNone}, MaxProps)}

PropertyFiles ==
  {[exists |-> TRUE, lines |-> ls] : ls \in SeqsUpTo(PropertyLines, MaxProps)}
  \cup CommentedFiles
  \cup ExistsFiles
  \cup {[exists |-> FALSE, lines |-> <<>>]}

\* ------------------------------------------------------------------------
\* PCHBVerifier
\* ------------------------------------------------------------------------

\* range(32) of load_design: the number of bits of data and of data_next.
\* The checks treat every bit alike, so the model keeps DataWidth of them.
DataWidth == 2

DataNames == <<"data_0", "data_1", "data_2", "data_3">>
DataNextNames == <<"data_next_0", "data_next_1", "data_next_2", "data_next_3">>

\* a Python list of expressions, as a value of the signals dict and of the
\* operand stack
PyList(exprs) == <<"list", exprs>>

IsPyList(x) == x[1] = "list"

\* the dict load_design assigns to self.signals
PCHBSignals ==
  [n \in {"req", "req_next", "ack", "ack_next", "data", "data_next", "en",
          "en_next", "reset"} |->
     CASE n = "data" ->
            PyList([i \in 1..DataWidth |-> Z3Var(DataNames[i], 1)])
       [] n = "data_next" ->
            PyList([i \in 1..DataWidth |-> Z3Var(DataNextNames[i], 1)])
       [] OTHER -> Z3Var(n, 1)]

\* The solver is the sequence of its scopes, the base scope first; a scope
\* is the sequence of the constraints asserted in it.
ScopeAdd(solver, c) == [solver EXCEPT ![Len(solver)] = Append(@, c)]

RECURSIVE ScopeAddAll(_, _)
ScopeAddAll(solver, cs) ==
  IF cs = <<>> THEN solver
  ELSE ScopeAddAll(ScopeAdd(solver, Head(cs)), Tail(cs))

\* solver.push()
ScopePush(solver) == Append(solver, <<>>)

\* solver.pop()
ScopePop(solver) == SubSeq(solver, 1, Len(solver) - 1)

\* every constraint the solver holds, whatever its scope
RECURSIVE Asserted(_)
Asserted(solver) ==
  IF solver = <<>> THEN <<>> ELSE Head(solver) \o Asserted(Tail(solver))

\* PCHBVerifier.__init__.  pc is the position inside verify(), idx the
\* number of patterns the loop of _detect_trojans has processed, props the
\* PCHBProperties verify() loaded, ret what the last call returned
\* ("raised" when an exception left it).
NewPCHB ==
  [signals |-> EmptyDict,
   solver |-> <<<<>>>>,
   handshake_violations |-> <<>>,
   trojan_detections |-> <<>>,
   timing_violations |-> <<>>,
   props |-> <<>>,
   pc |-> "idle",
   idx |-> 0,
   ret |-> "none",
   loads |-> 0,
   verifies |-> 0,
   reports |-> 0]

\* load_design: the text of the file is read and never looked at
PCHB_load_design(v, verilog) ==
  [v EXCEPT !.signals = PCHBSignals, !.ret = "None", !.loads = @ + 1]

\* verify(): props = self._load_properties(properties_file); the file is
\* [exists |-> BOOLEAN, trojan_patterns |-> the patterns]
PCHB_VerifyStart(v, file) ==
  IF ~file.exists THEN [v EXCEPT !.ret = "raised"]
  ELSE [v EXCEPT !.props = file.trojan_patterns,
                 !.pc = "handshake",
                 !.idx = 0,
                 !.ret = "none",
                 !.verifies = @ + 1]

\* the three rules _verify_handshake asserts
HandshakeRules(signals) ==
  <<<<"implies", signals["req"], <<"not", signals["ack"]>>>>,
    <<"implies", signals["ack"], <<"eq", signals["req_next"], <<"val", 0>>>>>>,
    <<"implies",
      <<"and", signals["ack"], <<"eq", signals["req"], <<"val", 0>>>>>>,
      <<"eq", signals["ack_next"], <<"val", 0>>>>>>>>

\* self.signals["req"] raises KeyError before load_design
_verify_handshake(v) ==
  LET Checked(solver) ==
        [v EXCEPT !.solver = solver,
                  !.handshake_violations =
                    IF ~Z3Sat(Asserted(solver))
                    THEN Append(@, "Handshake protocol violation detected")
                    ELSE @,
                  !.pc = "stability"]
  IN IF "req" \notin DOMAIN v.signals
     THEN [v EXCEPT !.pc = "idle", !.ret = "raised"]
     ELSE Checked(ScopeAddAll(v.solver, HandshakeRules(v.signals)))

\* Implies(en, bit == bit_next) for each pair of zip(data, data_next)
StabilityRules(signals) ==
  [i \in 1..Len(signals["data"][2]) |->
     <<"implies", signals["en"],
       <<"eq", signals["data"][2][i], signals["data_next"][2][i]>>>>]

_verify_stability(v) ==
  LET Checked(solver) ==
        [v EXCEPT !.solver = solver,
                  !.timing_violations =
                    IF ~Z3Sat(Asserted(solver))
                    THEN Append(@, "Data stability violation during evaluation")
                    ELSE @,
                  !.pc = IF v.props = <<>> THEN "report" ELSE "trojans"]
  IN Checked(ScopeAddAll(v.solver, StabilityRules(v.signals)))

\* list[:-1]
Front(s) == SubSeq(s, 1, Len(s) - 1)

\* precedence = {'!': 3, '&&': 2, '||': 1}
Precedence ==
  [op \in {"!", "&&", "||"} |->
     CASE op = "!" -> 3 [] op = "&&" -> 2 [] op = "||" -> 1]

\* re.findall(r"(\w+|&&|\|\||!|\(|\))", pattern): what is none of these is
\* dropped
Tokenize(pattern) ==
  SelectSeq(pattern, LAMBDA t : IsWord(t) \/ t \in {"&&", "||", "!", "(", ")"})

\* _apply_operator: <<"ok", stack>> or <<"err", message>>.  Not, And and Or
\* of the library refuse an operand that is a Python list.  An operator
\* that is none of the three ("(" left on ops) changes nothing.
_apply_operator(op, stack) ==
  CASE op = "!" ->
         IF stack = <<>> THEN <<"err", "Missing operand for ! operator">>
         ELSE IF IsPyList(stack[Len(stack)])
         THEN <<"err", "Z3 expression expected">>
         ELSE <<"ok", Append(Front(stack), <<"not", stack[Len(stack)]>>)>>
    [] op \in {"&&", "||"} ->
         IF Len(stack) < 2 THEN <<"err", "Missing operands for operator">>
         ELSE IF IsPyList(stack[Len(stack)]) \/ IsPyList(stack[Len(stack) - 1])
         THEN <<"err", "Z3 expression expected">>
         ELSE <<"ok", Append(SubSeq(stack, 1, Len(stack) - 2),
                             <<IF op = "&&" THEN "and" ELSE "or",
                               stack[Len(stack) - 1], stack[Len(stack)]>>)>>
    [] OTHER -> <<"ok", stack>>

\* The three loops of _pattern_to_z3 that pop ops and apply them: while ops
\* is not empty, its top is not "(" (unless through_paren) and the
\* precedence of the top is at least min_prec.
\* <<"ok", stack, ops>> or <<"err", message>>
RECURSIVE Unwind(_, _, _, _)
Unwind(ops, stack, min_prec, through_paren) ==
  LET Applied(r) ==
        IF r[1] = "err" THEN r
        ELSE Unwind(Front(ops), r[2], min_prec, through_paren)
  IN IF ops = <<>> THEN <<"ok", stack, ops>>
     ELSE IF ops[Len(ops)] = "(" /\ ~through_paren THEN <<"ok", stack, ops>>
     ELSE IF ops[Len(ops)] # "(" /\ Precedence[ops[Len(ops)]] < min_prec
     THEN <<"ok", stack, ops>>
     ELSE Applied(_apply_operator(ops[Len(ops)], stack))

\* the loop over the tokens, and the loop after it
RECURSIVE PatternScan(_, _, _, _)
PatternScan(tokens, signals, stack, ops) ==
  LET Closed(r) ==
        IF r[1] = "err" THEN r
        ELSE IF r[3] = <<>> THEN <<"err", "pop from empty list">>
        ELSE PatternScan(Tail(tokens), signals, r[2], Front(r[3]))
      Pushed(r) ==
        IF r[1] = "err" THEN r
        ELSE PatternScan(Tail(tokens), signals, r[2],
                         Append(r[3], Head(tokens)))
  IN IF tokens = <<>> THEN Unwind(ops, stack, 0, TRUE)
     ELSE IF Head(tokens) \in DOMAIN signals
     THEN PatternScan(Tail(tokens), signals,
                      Append(stack, signals[Head(tokens)]), ops)
     ELSE IF Head(tokens) = "("
     THEN PatternScan(Tail(tokens), signals, stack, Append(ops, "("))
     ELSE IF Head(tokens) = ")" THEN Closed(Unwind(ops, stack, 0, FALSE))
     ELSE IF Head(tokens) \in DOMAIN Precedence
     THEN Pushed(Unwind(ops, stack, Precedence[Head(tokens)], FALSE))
     ELSE PatternScan(Tail(tokens), signals, stack, ops)

\* <<"ok", constraint>>, <<"none">> (the method returns None) or
\* <<"err", message>> (it raises)
_pattern_to_z3(pattern, signals) ==
  LET Scanned(r) ==
        IF r[1] = "err" THEN r
        ELSE IF r[2] = <<>> THEN <<"none">>
        ELSE <<"ok", r[2][1]>>
  IN IF pattern = <<>> THEN <<"none">>
     ELSE Scanned(PatternScan(Tokenize(pattern), signals, <<>>, <<>>))

\* an entry of results["trojan_detections"]; of str(self.solver.model())
\* the model keeps the part about the variables of the pattern
Detection(pattern, model) ==
  [name |-> pattern.name, type |-> pattern.type,
   severity |-> pattern.severity, model |-> model]

\* model, on the variables vs (a set of <<name, width>>)
Restrict(model, vs) == [n \in {x[1] : x \in vs} |-> model[n]]

\* One iteration of the loop of _detect_trojans: the states it can leave,
\* one for each model the solver may return.  A pattern is
\* [keys |-> the keys of the dict, name, type, severity, logic].  What
\* raises inside the try goes to its handler, which goes on with the next
\* pattern: a KeyError raised while the detection is built leaves the scope
\* pushed.
DetectNext(v) ==
  LET Continue(solver, detections) ==
        [v EXCEPT !.solver = solver,
                  !.trojan_detections = detections,
                  !.idx = @ + 1,
                  !.pc = IF v.idx + 1 = Len(v.props) THEN "report"
                         ELSE "trojans"]
      Decide(pattern, solver) ==
        IF Z3Sat(Asserted(solver))
        THEN IF {"name", "type", "severity"} \subseteq pattern.keys
             THEN {Continue(ScopePop(solver),
                            Append(v.trojan_detections,
                                   Detection(pattern,
                                     Restrict(m, ConstraintVars(
                                                   solver[Len(solver)])))))
                     : m \in Models(Asserted(solver))}
             ELSE {Continue(solver, v.trojan_detections)}
        ELSE {Continue(ScopePop(solver), v.trojan_detections)}
      Built(pattern, r) ==
        IF r[1] # "ok" THEN {Continue(v.solver, v.trojan_detections)}
        ELSE Decide(pattern,
                    ScopeAddAll(ScopePush(v.solver),
                                IF IsPyList(r[2]) THEN r[2][2] ELSE <<r[2]>>))
      Try(pattern) ==
        IF "logic" \notin pattern.keys
        THEN {Continue(v.solver, v.trojan_detections)}
        ELSE Built(pattern, _pattern_to_z3(pattern.logic, v.signals))
  IN Try(v.props[v.idx + 1])

\* verify(): self._generate_report()
PCHB_generate_report(v) ==
  [v EXCEPT !.reports = @ + 1, !.pc = "idle", !.ret = "None"]

\* the states the step of verify() at v.pc can leave
PCHB_VerifyStep(v) ==
  CASE v.pc = "handshake" -> {_verify_handshake(v)}
    [] v.pc = "stability" -> {_verify_stability(v)}
    [] v.pc = "trojans" -> DetectNext(v)
    [] v.pc = "report" -> {PCHB_generate_report(v)}

\* ------------------------------------------------------------------------
\* PCHB designs and property files
\* ------------------------------------------------------------------------

PCHBDesignPlain ==
  <<"module", "pchb", "(", "input", "req", ",", "output", "ack", ")", ";",
    "endmodule">>

\* req and ack are one wire
PCHBDesignTied ==
  <<"module", "pchb", "(", "input", "req", ",", "output", "ack", ")", ";",
    "assign", "ack", "=", "req", ";", "endmodule">>

PCHBDesigns == {PCHBDesignPlain, PCHBDesignTied}

AllKeys == {"name", "type", "severity", "logic"}

TrojanPattern(name, keys, logic) ==
  [name |-> name, type |-> "trojan", severity |-> "high", keys |-> keys,
   logic |-> logic]

PatReqAck == TrojanPattern("req_ack", AllKeys, <<"req", "&&", "ack">>)
PatNotReq == TrojanPattern("not_req", AllKeys, <<"!", "req">>)
PatParen ==
  TrojanPattern("paren", AllKeys, <<"(", "req", "||", "ack", ")", "&&", "en">>)
PatUnknown == TrojanPattern("unknown", AllKeys, <<"foo", "&&", "req">>)
PatUnbalanced == TrojanPattern("unbalanced", AllKeys, <<"req", ")">>)
PatEmpty == TrojanPattern("empty", AllKeys, <<>>)
PatData == TrojanPattern("data", AllKeys, <<"data">>)
PatNoName ==
  TrojanPattern("", {"type", "severity", "logic"}, <<"ack", "&&", "en">>)

PatNotNot == TrojanPattern("not_not", AllKeys, <<"!", "!", "req">>)
PatPrec ==
  TrojanPattern("prec", AllKeys, <<"req", "||", "ack", "&&", "!", "en">>)

PatOpenParen == TrojanPattern("open_paren", AllKeys, <<"(", "req">>)
PatJuxtaposed == TrojanPattern("juxtaposed", AllKeys, <<"req", "ack">>)
PatDangling == TrojanPattern("dangling", AllKeys, <<"req", "&&">>)

TrojanPatterns == {PatReqAck, PatNotReq, PatParen, PatUnknown, PatUnbalanced,
                   PatEmpty, PatData, PatNoName, PatNotNot, PatPrec,
                   PatOpenParen, PatJuxtaposed, PatDangling}

\* the longest list of trojan_patterns
MaxPatterns == 2

PCHBPropertyFiles ==
  {[exists |-> TRUE, trojan_patterns |-> ps] :
     ps \in SeqsUpTo(TrojanPatterns, MaxPatterns)}
  \cup {[exists |-> FALSE, trojan_patterns |-> <<>>]}

\* ------------------------------------------------------------------------
\* TrojanDetector (hardware_trojan_detection/trojan_detector.py)
\*
\* The text given to analyze_design is kept as what the searches of
\* analyze_design find in it: found[i] is the list re.findall returns for
\* the i-th pattern of _load_trojan_patterns (a match is written as the
\* number of its pattern), flagged[name] the list the heuristic `name`
\* returns (an item is written as the number of its heuristic).
\* ------------------------------------------------------------------------

\* the categories of _load_trojan_patterns, in the order of the dict
PatternCategories ==
  <<"rare_condition", "payload_activation", "information_leakage">>

\* the patterns of each category, numbered in the order of the dict
CategoryPatterns ==
  [c \in Range(PatternCategories) |->
     CASE c = "rare_condition" -> <<1, 2, 3>>
       [] c = "payload_activation" -> <<4, 5, 6>>
       [] c = "information_leakage" -> <<7, 8, 9>>]

\* the heuristics of _load_heuristics, in the order of the dict
HeuristicNames == <<"unused_signals", "rare_branches", "hidden_state">>

\* results, as analyze_design creates it
NewResults ==
  [pattern_matches |-> EmptyDict, heuristic_flags |-> EmptyDict, score |-> 0]

\* for pattern in patterns: matches = re.findall(...);
\* if matches: results['pattern_matches'][category].extend(matches)
RECURSIVE ExtendMatches(_, _, _)
ExtendMatches(matches, found, patterns) ==
  IF patterns = <<>> THEN matches
  ELSE ExtendMatches(matches \o found[Head(patterns)], found, Tail(patterns))

\* the loop over the categories: pattern_matches is a defaultdict(list), so
\* a category is a key of it once one of its patterns has matched
RECURSIVE PatternMatching(_, _, _)
PatternMatching(pattern_matches, found, categories) ==
  LET Extended(category, matches) ==
        PatternMatching(IF matches = <<>> THEN pattern_matches
                        ELSE Put(pattern_matches, category, matches),
                        found, Tail(categories))
  IN IF categories = <<>> THEN pattern_matches
     ELSE Extended(Head(categories),
                   ExtendMatches(<<>>, found,
                                 CategoryPatterns[Head(categories)]))

\* results['heuristic_flags'][name] = heuristic(rtl_code)
HeuristicAnalysis(flagged) == [name \in Range(HeuristicNames) |-> flagged[name]]

\* Variant of CategoryWeight with the weights of payload_activation and
\* information_leakage exchanged; C15_ThreatScore fails with it.
CategoryWeightExchanged ==
  [c \in Range(PatternCategories) |->
     CASE c = "rare_condition" -> 3
       [] c = "payload_activation" -> 7
       [] c = "information_leakage" -> 5]

\* the weights of the categories in _calculate_threat_score
CategoryWeight ==
  [c \in Range(PatternCategories) |->
     CASE c = "rare_condition" -> 3
       [] c = "payload_activation" -> 5
       [] c = "information_leakage" -> 7]

\* the weights of the heuristics in _calculate_threat_score
HeuristicWeight ==
  [name \in Range(HeuristicNames) |->
     CASE name = "unused_signals" -> 2
       [] name = "rare_branches" -> 3
       [] name = "hidden_state" -> 4]

\* for category, matches in results['pattern_matches'].items():
\*     score += len(matches) * weight[category]
RECURSIVE PatternScore(_, _, _)
PatternScore(score, pattern_matches, categories) ==
  IF categories = <<>> THEN score
  ELSE PatternScore(IF Head(categories) \in DOMAIN pattern_matches
                    THEN score + Len(pattern_matches[Head(categories)])
                                   * CategoryWeight[Head(categories)]
                    ELSE score,
                    pattern_matches, Tail(categories))

\* for name, flags in results['heuristic_flags'].items():
\*     if flags: score += weight[name] * len(flags)
RECURSIVE HeuristicScore(_, _, _)
HeuristicScore(score, heuristic_flags, names) ==
  IF names = <<>> THEN score
  ELSE HeuristicScore(IF heuristic_flags[Head(names)] # <<>>
                      THEN score + HeuristicWeight[Head(names)]
                                     * Len(heuristic_flags[Head(names)])
                      ELSE score,
                      heuristic_flags, Tail(names))

_calculate_threat_score(results) ==
  HeuristicScore(PatternScore(0, results.pattern_matches, PatternCategories),
                 results.heuristic_flags, HeuristicNames)

\* analyze_design: the results it returns
analyze_design(rtl_code) ==
  LET Scored(results) ==
        [results EXCEPT !.score = _calculate_threat_score(results)]
  IN Scored([NewResults EXCEPT
               !.pattern_matches =
                  PatternMatching(@, rtl_code.found, PatternCategories),
               !.heuristic_flags = HeuristicAnalysis(rtl_code.flagged)])

\* a TrojanDetector keeps nothing between calls; the model keeps the
\* number of the calls of analyze_design and what the last one returned
NewDetector == [calls |-> 0, results |-> NewResults]

\* ------------------------------------------------------------------------
\* The texts given to analyze_design
\* ------------------------------------------------------------------------

\* the most matches, and the most flagged items, of one text
MaxMatches == 3
MaxFlags == 3

\* the calls of analyze_design on one text
MaxAnalyses == 1

\* the lists of at most n numbers of 1..k, in increasing order
SortedUpTo(k, n) ==
  {h \in UNION {[1..m -> 1..k] : m \in 0..n} :
     \A i \in 1..(Len(h) - 1) : h[i] <= h[i + 1]}

RtlCodes ==
  {[found |-> [i \in 1..9 |-> SelectSeq(h, LAMBDA x : x = i)],
    flagged |-> [name \in Range(HeuristicNames) |->
                   SelectSeq(g, LAMBDA x : HeuristicNames[x] = name)]] :
     h \in SortedUpTo(9, MaxMatches), g \in SortedUpTo(3, MaxFlags)}

\* ------------------------------------------------------------------------
\* State.  fv is the FormalVerifier of Spec and of SpecReuse, design and
\* property_file the two files of a session; pv is the PCHBVerifier of
\* SpecPCHB, pchb_design and pchb_file its two files; runA and runB are the
\* two FormalVerifiers of SpecDet, and stage the position of SpecDet in its
\* two runs; td is the TrojanDetector of SpecScore and rtl_code the text it
\* analyzes; first_run is the history of SpecReuse: the counters of fv at
\* the return of its first verify().
\* ------------------------------------------------------------------------

VARIABLES fv, design, property_file, pv, pchb_design, pchb_file, runA, runB,
          stage, td, rtl_code, first_run

vars ==
  <<fv, design, property_file, pv, pchb_design, pchb_file, runA, runB, stage,
    td, rtl_code, first_run>>

files == <<design, property_file>>
fvState == <<fv, design, property_file>>
pchbState == <<pv, pchb_design, pchb_file>>
detState == <<runA, runB, stage>>
scoreState == <<td, rtl_code>>
reuseState == <<first_run>>

\* the calls of each load method, and the runs of verify(), of one session
MaxLoads == 1
MaxVerify == 1

\* ------------------------------------------------------------------------
\* Spec: one FormalVerifier, created and then driven through load_design,
\* load_properties and verify in any order, on one design file and one
\* property file.
\* ------------------------------------------------------------------------

PCHBIdle ==
  /\ pv = NewPCHB
  /\ pchb_design = PCHBDesignPlain
  /\ pchb_file = [exists |-> FALSE, trojan_patterns |-> <<>>]

DetIdle ==
  /\ runA = NewVerifier
  /\ runB = NewVerifier
  /\ stage = 0

ScoreIdle ==
  /\ td = NewDetector
  /\ rtl_code = [found |-> [i \in 1..9 |-> <<>>],
                 flagged |-> [name \in Range(HeuristicNames) |-> <<>>]]

\* properties_checked, violations_found and the length of trojan_findings
\* of the result record
Counters(v) ==
  [properties_checked |-> v.properties_checked,
   violations_found |-> v.violations_found,
   trojan_findings |-> Len(v.trojan_findings)]

ReuseIdle == first_run = Counters(NewVerifier)

Init ==
  /\ fv = NewVerifier
  /\ design \in Designs
  /\ property_file \in PropertyFiles
  /\ PCHBIdle
  /\ DetIdle
  /\ ScoreIdle
  /\ ReuseIdle

LoadDesign ==
  /\ fv.pc = "idle"
  /\ fv.loads < MaxLoads
  /\ fv' = load_design(fv, design)
  /\ UNCHANGED <<files, pchbState, detState, scoreState, reuseState>>

LoadProperties ==
  /\ fv.pc = "idle"
  /\ fv.prop_loads < MaxLoads
  /\ fv' = load_properties(fv, property_file)
  /\ UNCHANGED <<files, pchbState, detState, scoreState, reuseState>>

Verify ==
  /\ fv.pc = "idle"
  /\ fv.verifies < MaxVerify
  /\ fv' = VerifyStart(fv)
  /\ UNCHANGED <<files, pchbState, detState, scoreState, reuseState>>

VerifyContinue ==
  /\ fv.pc # "idle"
  /\ fv' \in VerifyStep(fv)
  /\ UNCHANGED <<files, pchbState, detState, scoreState, reuseState>>

Next == LoadDesign \/ LoadProperties \/ Verify \/ VerifyContinue

Spec == Init /\ [][Next]_vars

\* ------------------------------------------------------------------------
\* SpecPCHB: one PCHBVerifier, created and then driven through load_design
\* and verify in any order, on one design file and one property file.
\* ------------------------------------------------------------------------

InitPCHB ==
  /\ pv = NewPCHB
  /\ pchb_design \in PCHBDesigns
  /\ pchb_file \in PCHBPropertyFiles
  /\ fv = NewVerifier
  /\ design = DesignPorts
  /\ property_file = [exists |-> FALSE, lines |-> <<>>]
  /\ DetIdle
  /\ ScoreIdle
  /\ ReuseIdle

PCHBLoadDesign ==
  /\ pv.pc = "idle"
  /\ pv.loads < MaxLoads
  /\ pv' = PCHB_load_design(pv, pchb_design)
  /\ UNCHANGED <<pchb_design, pchb_file, fvState, detState, scoreState, reuseState>>

PCHBVerify ==
  /\ pv.pc = "idle"
  /\ pv.verifies < MaxVerify
  /\ pv' = PCHB_VerifyStart(pv, pchb_file)
  /\ UNCHANGED <<pchb_design, pchb_file, fvState, detState, scoreState, reuseState>>

PCHBVerifyContinue ==
  /\ pv.pc # "idle"
  /\ pv' \in PCHB_VerifyStep(pv)
  /\ UNCHANGED <<pchb_design, pchb_file, fvState, detState, scoreState, reuseState>>

NextPCHB == PCHBLoadDesign \/ PCHBVerify \/ PCHBVerifyContinue

SpecPCHB == InitPCHB /\ [][NextPCHB]_vars

\* ------------------------------------------------------------------------
\* SpecDet: the full pipeline (load_design, load_properties, verify) run
\* twice, each time on a FormalVerifier of its own, on the same design file
\* and the same property file.  stage 0..3 is the first run (load_design,
\* load_properties, the call of verify, the rest of verify), stage 4..7 the
\* second, stage 8 the end.  In each run the solver returns any of its
\* models.
\* ------------------------------------------------------------------------

InitDet ==
  /\ runA = NewVerifier
  /\ runB = NewVerifier
  /\ stage = 0
  /\ design \in Designs
  /\ property_file \in PropertyFiles
  /\ fv = NewVerifier
  /\ PCHBIdle
  /\ ScoreIdle
  /\ ReuseIdle

\* stage after a step of verify() that leaves the verifier v
AfterVerify(v, running) == IF v.pc = "idle" THEN running + 1 ELSE running

DetLoadDesign ==
  /\ \/ stage = 0 /\ runA' = load_design(runA, design) /\ UNCHANGED runB
     \/ stage = 4 /\ runB' = load_design(runB, design) /\ UNCHANGED runA
  /\ stage' = stage + 1
  /\ UNCHANGED <<files, fv, pchbState, scoreState, reuseState>>

DetLoadProperties ==
  /\ \/ /\ stage = 1
        /\ runA' = load_properties(runA, property_file)
        /\ UNCHANGED runB
     \/ /\ stage = 5
        /\ runB' = load_properties(runB, property_file)
        /\ UNCHANGED runA
  /\ stage' = stage + 1
  /\ UNCHANGED <<files, fv, pchbState, scoreState, reuseState>>

DetVerify ==
  /\ \/ /\ stage = 2
        /\ runA' = VerifyStart(runA)
        /\ stage' = AfterVerify(runA', 3)
        /\ UNCHANGED runB
     \/ /\ stage = 6
        /\ runB' = VerifyStart(runB)
        /\ stage' = AfterVerify(runB', 7)
        /\ UNCHANGED runA
  /\ UNCHANGED <<files, fv, pchbState, scoreState, reuseState>>

DetVerifyContinue ==
  /\ \/ /\ stage = 3
        /\ runA' \in VerifyStep(runA)
        /\ stage' = AfterVerify(runA', 3)
        /\ UNCHANGED runB
     \/ /\ stage = 7
        /\ runB' \in VerifyStep(runB)
        /\ stage' = AfterVerify(runB', 7)
        /\ UNCHANGED runA
  /\ UNCHANGED <<files, fv, pchbState, scoreState, reuseState>>

NextDet == DetLoadDesign \/ DetLoadProperties \/ DetVerify \/ DetVerifyContinue

SpecDet == InitDet /\ [][NextDet]_vars

\* ------------------------------------------------------------------------
\* SpecScore: one TrojanDetector, whose analyze_design is called on one
\* text.
\* ------------------------------------------------------------------------

InitScore ==
  /\ td = NewDetector
  /\ rtl_code \in RtlCodes
  /\ fv = NewVerifier
  /\ design = DesignPorts
  /\ property_file = [exists |-> FALSE, lines |-> <<>>]
  /\ PCHBIdle
  /\ DetIdle
  /\ ReuseIdle

AnalyzeDesign ==
  /\ td.calls < MaxAnalyses
  /\ td' = [calls |-> td.calls + 1, results |-> analyze_design(rtl_code)]
  /\ UNCHANGED <<rtl_code, fvState, pchbState, detState, reuseState>>

NextScore == AnalyzeDesign

SpecScore == InitScore /\ [][NextScore]_vars

\* ------------------------------------------------------------------------
\* SpecReuse: one FormalVerifier used again: load_design is called on up
\* to MaxReuse design files, one after the other, then load_properties on
\* one property file, then verify() up to MaxReuse times.  design is the
\* file of the latest load_design, and first_run keeps the counters of
\* the result record as they were when the first verify() returned.
\* ------------------------------------------------------------------------

MaxReuse == 2

InitReuse ==
  /\ fv = NewVerifier
  /\ design = DesignPorts
  /\ property_file \in PropertyFiles
  /\ first_run = Counters(NewVerifier)
  /\ PCHBIdle
  /\ DetIdle
  /\ ScoreIdle

ReuseLoadDesign ==
  /\ fv.pc = "idle"
  /\ fv.loads < MaxReuse
  /\ fv.prop_loads = 0
  /\ \E d \in Designs :
       /\ design' = d
       /\ fv' = load_design(fv, d)
  /\ UNCHANGED <<property_file, first_run, pchbState, detState, scoreState>>

ReuseLoadProperties ==
  /\ fv.pc = "idle"
  /\ fv.loads > 0
  /\ fv.prop_loads = 0
  /\ fv' = load_properties(fv, property_file)
  /\ UNCHANGED <<files, first_run, pchbState, detState, scoreState>>

ReuseVerify ==
  /\ fv.pc = "idle"
  /\ fv.prop_loads = 1
  /\ fv.verifies < MaxReuse
  /\ fv' = VerifyStart(fv)
  /\ UNCHANGED <<files, first_run, pchbState, detState, scoreState>>

ReuseVerifyContinue ==
  /\ fv.pc # "idle"
  /\ fv' \in VerifyStep(fv)
  /\ first_run' = IF fv'.pc = "idle" /\ fv'.verifies = 1
                  THEN Counters(fv') ELSE first_run
  /\ UNCHANGED <<files, pchbState, detState, scoreState>>

NextReuse ==
  ReuseLoadDesign \/ ReuseLoadProperties \/ ReuseVerify
    \/ ReuseVerifyContinue

SpecReuse == InitReuse /\ [][NextReuse]_vars

\* ------------------------------------------------------------------------
\* Claims
\* ------------------------------------------------------------------------

\* C1 (Spec).  Signal extraction from a module header: once load_design
\* has read the header `input clk, input [7:0] data, output done` the
\* signals are exactly clk, data and done, with kinds input, input, output
\* and widths 1, 8, 1 (|msb - lsb| + 1 for a port with a range).
C1_PortWidths ==
  (design = DesignPorts /\ fv.loads > 0) =>
     /\ DOMAIN fv.parser.signals = {"clk", "data", "done"}
     /\ fv.parser.signals["clk"].type = "input"
     /\ fv.parser.signals["clk"].width = 1
     /\ fv.parser.signals["data"].type = "input"
     /\ fv.parser.signals["data"].width = 8
     /\ fv.parser.signals["done"].type = "output"
     /\ fv.parser.signals["done"].width = 1

\* whether the design text ties ack to req (assign ack = req)
TiesReqAck(verilog) ==
  \E i \in 1..Len(verilog) :
     /\ verilog[i] = "assign"
     /\ Tok(verilog, i + 1) = "ack"
     /\ Tok(verilog, i + 2) = "="
     /\ Tok(verilog, i + 3) = "req"

\* C2 (SpecPCHB).  Polarity law: when the loaded design ties req and ack to
\* the same wire, then once the handshake check of a verify() run has been
\* decided the result holds a handshake violation.
C2_PolarityLaw ==
  (TiesReqAck(pchb_design) /\ pv.pc \in {"stability", "trojans", "report"})
    => pv.handshake_violations # <<>>

\* a property is malformed when its evaluation, alone in a fresh solver,
\* ends in an error instead of a verdict
Malformed(prop, z3_vars) == VerifyProperty(prop, z3_vars, <<>>).raised

MediumWarnings(v) ==
  SelectSeq(ResultWarnings(v), LAMBDA w : w.severity = "medium")

\* the malformed properties among the first n, in their order
MalformedAmong(v, n) ==
  SelectSeq(SubSeq(v.properties, 1, n), LAMBDA p : Malformed(p, v.z3_vars))

ForAllOverAbsent(prop, z3_vars) ==
  /\ PropertyKind(prop) = "forall"
  /\ QuantMatch(prop, "ForAll") # <<>>
  /\ \A part \in Range(SplitOn(QuantMatch(prop, "ForAll")[1], ",")) :
        ~(Len(part) = 1 /\ part[1] \in DOMAIN z3_vars)

\* the last entry of results['security_warnings'] is the medium warning
\* "no valid variables" about prop
LastWarningNoVariables(v, prop) ==
  /\ ResultWarnings(v) # <<>>
  /\ ResultWarnings(v)[Len(ResultWarnings(v))].type = "property_error"
  /\ ResultWarnings(v)[Len(ResultWarnings(v))].severity = "medium"
  /\ ResultWarnings(v)[Len(ResultWarnings(v))].about = prop
  /\ ResultWarnings(v)[Len(ResultWarnings(v))].error = "No valid variables"

\* C4 (Spec).  Quantifier scoping: the step of the property loop that
\* processes a ForAll property whose listed variables are all absent from
\* the signals appends one medium warning "no valid variables" about it and
\* leaves violations_found as it was.
C4_QuantifierScoping ==
  [][(fv.pc = "props"
      /\ ForAllOverAbsent(fv.properties[fv.idx + 1], fv.z3_vars))
     => /\ Len(ResultWarnings(fv')) = Len(ResultWarnings(fv)) + 1
        /\ SubSeq(ResultWarnings(fv'), 1, Len(ResultWarnings(fv)))
             = ResultWarnings(fv)
        /\ LastWarningNoVariables(fv', fv.properties[fv.idx + 1])
        /\ fv'.violations_found = fv.violations_found]_vars

\* C4 happens: the property just processed is a ForAll over absent
\* variables, and the warning about it is the last one.
C4_Witness ==
  /\ fv.pc \in {"props", "rare"}
  /\ fv.idx > 0
  /\ ForAllOverAbsent(fv.properties[fv.idx], fv.z3_vars)
  /\ LastWarningNoVariables(fv, fv.properties[fv.idx])

HasRareSignals(z3_vars) ==
  {"rare_signal1", "rare_signal2"} \subseteq DOMAIN z3_vars

\* rare_signal1 and rare_signal2 are both true
BothRareTrue(z3_vars) ==
  <<"and", <<"eq", z3_vars["rare_signal1"], <<"val", 1>>>>,
           <<"eq", z3_vars["rare_signal2"], <<"val", 1>>>>>>

\* how the evidence shows true: "True" for a 1-bit signal, and the
\* bit-vector the library casts True to, 1, for a wider one
TrueText(var) == IF var[3] = 1 THEN "True" ELSE "1"

RareEvidence(z3_vars) ==
  [type |-> "rare_trigger",
   severity |-> "critical",
   signals |-> [n \in {"rare_signal1", "rare_signal2"} |->
                  TrueText(z3_vars[n])]]

\* C5 (Spec).  Trojan co-activation witness: when the signals hold
\* rare_signal1 and rare_signal2 and the solver does not forbid both being
\* true, the rare-signal check appends exactly one critical rare_trigger
\* finding whose evidence shows both signals true, and adds one to
\* violations_found.
C5_RareTrigger ==
  [][(fv.pc = "rare"
      /\ HasRareSignals(fv.z3_vars)
      /\ Z3Sat(Append(fv.solver, BothRareTrue(fv.z3_vars))))
     => /\ fv'.trojan_findings =
             Append(fv.trojan_findings, RareEvidence(fv.z3_vars))
        /\ fv'.violations_found = fv.violations_found + 1]_vars

\* C5 happens: the rare-signal check has just appended its finding, with
\* both signals shown as True.
C5_Witness ==
  /\ fv.pc = "leak"
  /\ HasRareSignals(fv.z3_vars)
  /\ fv.trojan_findings # <<>>
  /\ fv.trojan_findings[Len(fv.trojan_findings)].type = "rare_trigger"
  /\ fv.trojan_findings[Len(fv.trojan_findings)].signals["rare_signal1"]
       = "True"
  /\ fv.trojan_findings[Len(fv.trojan_findings)].signals["rare_signal2"]
       = "True"
  /\ fv.violations_found > 0

\* key and ciphertext are 8-bit signals
HasKeyAndCiphertext(z3_vars) ==
  /\ {"key", "ciphertext"} \subseteq DOMAIN z3_vars
  /\ z3_vars["key"][3] = 8
  /\ z3_vars["ciphertext"][3] = 8

\* no constraint of the solver is about key or ciphertext
NothingSeparates(solver) ==
  \A x \in ConstraintVars(solver) : x[1] \notin {"key", "ciphertext"}

\* the Trojan-specific phase of a verify() run is over
TrojanPhaseOver(v) ==
  /\ v.verifies > 0
  /\ \/ v.pc = "report"
     \/ v.pc = "idle" /\ v.ret \in {"True", "raised"}

\* C6 (Spec).  Leakage witness: when the signals hold 8-bit key and
\* ciphertext and no constraint separates them, the Trojan-specific phase
\* of verify() leaves a critical key_leakage finding.
C6_LeakageWitness ==
  (TrojanPhaseOver(fv) /\ HasKeyAndCiphertext(fv.z3_vars)
     /\ NothingSeparates(fv.solver))
    => \E i \in 1..Len(fv.trojan_findings) :
          /\ fv.trojan_findings[i].type = "key_leakage"
          /\ fv.trojan_findings[i].severity = "critical"

\* C7 (Spec).  No malformed input aborts the session: no call of the
\* verifier is left by an unhandled error, so a verify() run that has
\* started its checks goes on to its report.
C7_NoAbort == fv.ret # "raised"

\* C8 (Spec).  Property scope isolation: between two checks (after each
\* property, and after each built-in Trojan check) the constraint store of
\* the solver is empty.
C8_ScopeIsolation == fv.solver = <<>>

\* C9 (SpecPCHB).  Protocol-checker scope isolation: when the stability
\* check, or a Trojan pattern, is about to be decided, the solver holds no
\* constraint of an earlier check.
C9_PCHBScopeIsolation ==
  pv.pc \in {"stability", "trojans"} => Asserted(pv.solver) = <<>>

\* the findings of a verifier
Findings(v) == <<v.violations_found, v.trojan_findings, ResultWarnings(v)>>

\* C10 (SpecDet).  Determinism: when both runs of the pipeline are over,
\* the two verifiers hold the same violations_found, the same
\* trojan_findings and the same security_warnings, in the same order,
\* whatever models the solver returned in each run.
C10_Determinism == stage = 8 => Findings(runA) = Findings(runB)

\* C10 happens: both runs are over, a property left a constraint about clk
\* and done in the solver, so the rare-signal check had several models to
\* choose from, and its finding is there.
C10_Witness ==
  /\ stage = 8
  /\ Len(runA.trojan_findings) = 1
  /\ runA.trojan_findings[1].type = "rare_trigger"
  /\ Len(runA.properties) = 1
  /\ runA.properties[1] = PropTuple
  /\ Len(ResultWarnings(runB)) > 0

\* the text holds no module header `module name ( ... ) ;`
NoModuleHeader(text) ==
  ~\E i \in 1..Len(text) :
      /\ text[i] = "module"
      /\ IsWord(Tok(text, i + 1))
      /\ Tok(text, i + 2) = "("
      /\ \E j \in (i + 3)..Len(text) : text[j] = ")" /\ Tok(text, j + 1) = ";"

ParseErrors(v) ==
  SelectSeq(v.parser.security_warnings, LAMBDA w : w.type = "parse_error")

\* C11 (Spec).  A missing module header is a fatal parse failure: a call of
\* load_design on a text without a module header returns failure, leaves
\* the signals empty (no port, register or wire of the text), records no
\* assignment and no behavioral block, and appends exactly one parse_error
\* warning, as the last warning.
C11_MissingHeaderFatal ==
  [][(fv'.loads = fv.loads + 1 /\ NoModuleHeader(design))
     => /\ fv'.ret = "False"
        /\ fv'.parser.signals = EmptyDict
        /\ ResultSignals(fv') = EmptyDict
        /\ fv'.parser.assignments = <<>>
        /\ fv'.parser.always_blocks = <<>>
        /\ Len(ParseErrors(fv')) = Len(ParseErrors(fv)) + 1
        /\ ResultWarnings(fv')[Len(ResultWarnings(fv'))].type = "parse_error"]_vars

\* C11 happens: load_design has run on a text without a module header that
\* declares a register and a wire, and left one parse_error and no signal.
C11_Witness ==
  /\ fv.loads > 0
  /\ NoModuleHeader(design)
  /\ "reg" \in Range(design)
  /\ "wire" \in Range(design)
  /\ fv.ret = "False"
  /\ Len(ParseErrors(fv)) = 1
  /\ fv.parser.signals = EmptyDict

\* the kinds of property that assert an invariant
AssertedInvariant(prop) == PropertyKind(prop) \in {"plain", "implies", "forall"}

\* what a property of the property files says, as a constraint over the
\* variables
Meaning(prop, z3_vars) ==
  CASE prop = PropEq -> <<"eq", z3_vars["clk"], z3_vars["done"]>>
    [] prop = PropNe -> <<"ne", z3_vars["clk"], z3_vars["clk"]>>
    [] prop = PropAndAnd -> <<"and", z3_vars["clk"], z3_vars["done"]>>
    [] prop = PropForAll ->
         <<"forall", <<"clk">>, <<"eq", z3_vars["clk"], z3_vars["done"]>>>>
    [] prop = PropImplies -> <<"implies", z3_vars["clk"], z3_vars["done"]>>
    [] prop = PropInfixImplies ->
         <<"implies", z3_vars["clk"], z3_vars["done"]>>
    [] OTHER -> <<"val", 1>>

\* the property the loop of _verify_generic_properties is about to process
CurrentProperty(v) == v.properties[v.idx + 1]

\* C12 (Spec).  Unsat-as-violation polarity: the step of the property loop
\* that processes a plain, Implies or ForAll property which evaluates
\* without error adds one to violations_found when the constraints of the
\* solver together with the property are unsatisfiable, and leaves
\* violations_found as it was when they are satisfiable.
C12_UnsatPolarity ==
  [][(/\ fv.pc = "props"
      /\ AssertedInvariant(CurrentProperty(fv))
      /\ ~VerifyProperty(CurrentProperty(fv), fv.z3_vars, fv.solver).raised)
     => fv'.violations_found =
          fv.violations_found
            + B2N(~Z3Sat(Append(fv.solver,
                                Meaning(CurrentProperty(fv), fv.z3_vars))))]_vars

\* C12 happens: the two properties of the list were evaluated without
\* error, the first (clk == done) was satisfiable and the second
\* (clk != clk) was unsatisfiable, and one violation is counted.
C12_Witness ==
  /\ fv.verifies = 1
  /\ fv.pc = "rare"
  /\ fv.properties = <<PropEq, PropNe>>
  /\ MediumWarnings(fv) = <<>>
  /\ fv.violations_found = 1

\* the names are 1-bit signals
BooleanSignals(names, z3_vars) ==
  /\ names \subseteq DOMAIN z3_vars
  /\ \A n \in names : z3_vars[n][3] = 1

\* C13 (Spec).  Implies(A, B) is evaluated as the implication A => B: the
\* step of the property loop that processes `Implies(clk, done)`, clk and
\* done being 1-bit signals, appends no warning and counts a violation
\* exactly when the solver with clk => done is unsatisfiable.
C13_ImpliesVerdict ==
  [][(/\ fv.pc = "props"
      /\ CurrentProperty(fv) = PropImplies
      /\ BooleanSignals({"clk", "done"}, fv.z3_vars))
     => /\ ResultWarnings(fv') = ResultWarnings(fv)
        /\ fv'.violations_found =
             fv.violations_found
               + B2N(~Z3Sat(Append(fv.solver,
                                   Meaning(PropImplies, fv.z3_vars))))]_vars

\* 1 when the step of verify() at v.pc judges a property violated
PropertyViolationNow(v) ==
  IF v.pc = "props"
  THEN B2N(VerifyProperty(CurrentProperty(v), v.z3_vars, v.solver).violation)
  ELSE 0

\* C14 (Spec).  violations_found counts the findings of the non-warning
\* categories: every step adds to it the number of property violations it
\* judges plus the number of entries it appends to trojan_findings, and a
\* step that appends a security warning adds nothing for it.
C14_ViolationCount ==
  [][fv'.violations_found - fv.violations_found
       = PropertyViolationNow(fv)
           + (Len(fv'.trojan_findings) - Len(fv.trojan_findings))]_vars

\* C14 happens: one property was judged violated, one caused a
\* property_error warning, the rare-signal check appended a finding, and
\* violations_found is 2.
C14_Witness ==
  /\ fv.pc = "leak"
  /\ fv.verifies = 1
  /\ fv.properties = <<PropNe, PropAndAnd>>
  /\ Len(MediumWarnings(fv)) = 1
  /\ Len(fv.trojan_findings) = 1
  /\ fv.violations_found = 2

\* the matches of a category, and the flagged items of a heuristic, in the
\* text
MatchCount(category) ==
  Len(rtl_code.found[CategoryPatterns[category][1]])
    + Len(rtl_code.found[CategoryPatterns[category][2]])
    + Len(rtl_code.found[CategoryPatterns[category][3]])

FlagCount(name) == Len(rtl_code.flagged[name])

\* C15 (SpecScore).  The threat score analyze_design returns is
\* 3 * rare-condition matches + 5 * payload-activation matches
\* + 7 * information-leakage matches + 2 * unused-signal flags
\* + 3 * rare-branch flags + 4 * hidden-state flags, and it is 0 exactly
\* when there is no match and no flag.
C15_ThreatScore ==
  td.calls > 0 =>
     /\ td.results.score =
          3 * MatchCount("rare_condition")
            + 5 * MatchCount("payload_activation")
            + 7 * MatchCount("information_leakage")
            + 2 * FlagCount("unused_signals")
            + 3 * FlagCount("rare_branches")
            + 4 * FlagCount("hidden_state")
     /\ td.results.score = 0 <=>
          /\ \A c \in Range(PatternCategories) : MatchCount(c) = 0
          /\ \A n \in Range(HeuristicNames) : FlagCount(n) = 0

\* C15 happens: analyze_design has returned for a text with one match of
\* each category and one flagged item of each heuristic, with score 24.
C15_Witness ==
  /\ td.calls > 0
  /\ \A c \in Range(PatternCategories) : MatchCount(c) = 1
  /\ \A n \in Range(HeuristicNames) : FlagCount(n) = 1
  /\ td.results.score = 24

\* C16 (Spec).  Both Trojan-detection layers run unconditionally: a call
\* of verify() on a verifier whose design was loaded goes on to the
\* property phase and the symbolic Trojan checks, whether or not a
\* property set was loaded.
C16_BothLayers ==
  [][(Verify /\ fv.loads > 0 /\ fv.parser.ret = "True")
     => fv'.pc \in {"props", "rare"}]_vars

\* a line of white space only
IsBlankLine(line) == \A i \in 1..Len(line) : line[i] = "WS"

\* a line whose first token after the white space is "#"
IsCommentLine(line) ==
  \E i \in 1..Len(line) :
     line[i] = "#" /\ \A j \in 1..(i - 1) : line[j] = "WS"

\* one property for each line that is neither blank nor a comment, in the
\* order of the file
PropertiesOf(lines) ==
  LET kept == SelectSeq(lines, LAMBDA line :
                ~IsBlankLine(line) /\ ~IsCommentLine(line))
  IN [i \in 1..Len(kept) |-> Strip(kept[i])]

\* C17 (Spec).  Loading a property file yields exactly one property for
\* each non-comment, non-blank line, in file order (a comment line being
\* one whose first non-blank character is `#`), and after the property
\* loop of verify() properties_checked is their number.
C17_PropertyLines ==
  /\ fv.has_properties => fv.properties = PropertiesOf(property_file.lines)
  /\ (fv.verifies = 1 /\ fv.pc \in {"rare", "leak", "report"})
       => fv.properties_checked = Len(PropertiesOf(property_file.lines))

\* C18 (SpecPCHB).  Scoped constraints are released on every exit path:
\* the step of _detect_trojans that processes a pattern, whatever its
\* outcome, leaves the scopes and the constraints of the solver as they
\* were before the pattern.
C18_ScopeRelease ==
  [][pv.pc = "trojans" => pv'.solver = pv.solver]_vars

\* the warnings of the pre-scan
PreScanWarnings(v) ==
  SelectSeq(v.parser.security_warnings,
            LAMBDA w : w.type \in Range(TrojanPatternTypes))

\* C19 (Spec).  Comments are stripped before any pattern matching: every
\* warning of the pre-scan is about a signature that occurs in the text
\* without its comments, and every signal is a name of that text.
C19_CommentsStrippedFirst ==
  fv.loads > 0 =>
     /\ \A i \in 1..Len(PreScanWarnings(fv)) :
           PatternFound(PreScanWarnings(fv)[i].type, _remove_comments(design))
     /\ DOMAIN fv.parser.signals \subseteq Range(_remove_comments(design))

\* the well-formed patterns of the property files, and the formula each
\* denotes with precedence ! > && > || and association to the left
Reference(logic, signals) ==
  CASE logic = <<"req", "&&", "ack">> ->
         <<"and", signals["req"], signals["ack"]>>
    [] logic = <<"ack", "&&", "en">> ->
         <<"and", signals["ack"], signals["en"]>>
    [] logic = <<"!", "req">> -> <<"not", signals["req"]>>
    [] logic = <<"!", "!", "req">> -> <<"not", <<"not", signals["req"]>>>>
    [] logic = <<"(", "req", "||", "ack", ")", "&&", "en">> ->
         <<"and", <<"or", signals["req"], signals["ack"]>>, signals["en"]>>
    [] logic = <<"req", "||", "ack", "&&", "!", "en">> ->
         <<"or", signals["req"],
                 <<"and", signals["ack"], <<"not", signals["en"]>>>>>>

WellFormedLogic ==
  {<<"req", "&&", "ack">>, <<"ack", "&&", "en">>, <<"!", "req">>,
   <<"!", "!", "req">>, <<"(", "req", "||", "ack", ")", "&&", "en">>,
   <<"req", "||", "ack", "&&", "!", "en">>}

\* e and f have the same truth value under every assignment
Equivalent(e, f) ==
  \A a \in Assignments(AllVars(e) \cup AllVars(f)) : Z3Eval(e, a) = Z3Eval(f, a)

\* what _pattern_to_z3 returns for the pattern _detect_trojans is about to
\* process
CurrentConstraint(v) == _pattern_to_z3(v.props[v.idx + 1].logic, v.signals)

\* C20 (SpecPCHB).  For a well-formed pattern over known boolean signals
\* built from !, &&, || and parentheses (repeated negation such as !!req
\* included), _pattern_to_z3 returns a formula whose truth value under
\* every assignment is that of the pattern parsed with precedence
\* ! > && > || and association to the left.
C20_PatternSemantics ==
  (pv.pc = "trojans" /\ pv.props[pv.idx + 1].logic \in WellFormedLogic)
    => /\ CurrentConstraint(pv)[1] = "ok"
       /\ Equivalent(CurrentConstraint(pv)[2],
                     Reference(pv.props[pv.idx + 1].logic, pv.signals))

\* the pattern _detect_trojans is about to process
CurrentPattern(v) == v.props[v.idx + 1]

\* the patterns of the property files that mention an identifier absent
\* from the signals, and what each says over the recognized signals only
OverRecognized(logic, signals) ==
  CASE logic = <<"foo", "&&", "req">> -> signals["req"]

UnknownIdentifierLogic == {<<"foo", "&&", "req">>}

\* C21 (SpecPCHB).  Unknown identifiers are dropped silently: for a
\* pattern that mentions an identifier absent from the signals (foo && req)
\* _pattern_to_z3 does not fail, and returns the expression over the
\* recognized signals only (req).
C21_UnknownDropped ==
  (pv.pc = "trojans" /\ CurrentPattern(pv).logic \in UnknownIdentifierLogic)
    => /\ CurrentConstraint(pv)[1] = "ok"
       /\ Equivalent(CurrentConstraint(pv)[2],
                     OverRecognized(CurrentPattern(pv).logic, pv.signals))

\* the malformed patterns of the property files: an unmatched ")", an
\* unmatched "(", a missing operand, a missing operator
MalformedLogic ==
  {<<"req", ")">>, <<"(", "req">>, <<"req", "&&">>, <<"req", "ack">>}

\* C22 (SpecPCHB).  Every malformed pattern expression is rejected: for a
\* pattern with unbalanced parentheses, a missing operand or a missing
\* operator, _pattern_to_z3 fails with an error and yields no constraint.
C22_MalformedRejected ==
  (pv.pc = "trojans" /\ CurrentPattern(pv).logic \in MalformedLogic)
    => CurrentConstraint(pv)[1] = "err"

\* the number of entries of the result record
PCHBFindingCount(v) ==
  Len(v.handshake_violations) + Len(v.trojan_detections)
    + Len(v.timing_violations)

\* C23 (SpecPCHB).  The step of _detect_trojans that processes a pattern
\* whose expression fails to parse records one finding, of medium
\* severity, in the result record, does not abort verify(), and goes on
\* with the next pattern (or the report after the last one).
C23_ParseFailureRecorded ==
  [][(pv.pc = "trojans" /\ CurrentConstraint(pv)[1] = "err")
     => /\ PCHBFindingCount(pv') = PCHBFindingCount(pv) + 1
        /\ Len(pv'.trojan_detections) = Len(pv.trojan_detections) + 1
             => pv'.trojan_detections[Len(pv'.trojan_detections)].severity
                  = "medium"
        /\ pv'.idx = pv.idx + 1
        /\ pv'.pc = IF pv'.idx = Len(pv.props) THEN "report" ELSE "trojans"
        /\ pv'.ret # "raised"]_vars

\* a signal a built-in protocol check reads is absent from the signals
ProtocolSignalAbsent(signals) ==
  ~({"req", "req_next", "ack", "ack_next", "en", "data", "data_next"}
      \subseteq DOMAIN signals)

\* C24 (SpecPCHB).  A built-in protocol check whose signals are absent is
\* skipped: the handshake step and the stability step of a verify() run
\* on signals without req, ack, en or data add no constraint and no
\* finding, raise no error, and verify() goes on.
C24_AbsentSignalsSkipped ==
  [][(pv.pc \in {"handshake", "stability"} /\ ProtocolSignalAbsent(pv.signals))
     => /\ pv'.solver = pv.solver
        /\ PCHBFindingCount(pv') = PCHBFindingCount(pv)
        /\ pv'.ret # "raised"
        /\ pv'.pc \in {"stability", "trojans", "report"}]_vars

\* the registers of the signals, and the name of the next-state variable
\* of a register
Registers(signals) == {n \in DOMAIN signals : signals[n].type = "reg"}

NextStateName ==
  [key |-> "key_next", ciphertext |-> "ciphertext_next",
   done |-> "done_next", data |-> "data_next",
   rare_signal2 |-> "rare_signal2_next"]

\* C25 (Spec).  The symbolic model is built before evaluation: while
\* verify() evaluates the properties, z3_vars holds for every signal one
\* variable of the signal's name and width, and for every register also
\* a next-state variable under the suffixed name.
C25_SymbolicModel ==
  fv.pc = "props"
    => /\ \A n \in DOMAIN fv.parser.signals :
            /\ n \in DOMAIN fv.z3_vars
            /\ fv.z3_vars[n] = Z3Var(n, fv.parser.signals[n].width)
       /\ \A n \in Registers(fv.parser.signals) :
            NextStateName[n] \in DOMAIN fv.z3_vars

\* parse() from p up to the step named stop (or to its return)
RECURSIVE ParseUntil(_, _)
ParseUntil(p, stop) ==
  IF p.pc = "idle" \/ p.pc = stop THEN p ELSE ParseUntil(ParseStep(p), stop)

\* the signals of the first parse() of the design once the ports are
\* extracted, and once the registers are extracted
SignalsAfterPorts ==
  ParseUntil(ParseOpen(NewParser, design), "regs").signals

SignalsAfterRegisters ==
  ParseUntil(ParseOpen(NewParser, design), "wires").signals

\* C26 (Spec).  A Signal is immutable after creation: after the first
\* load_design of a design that parses, every signal recorded by the
\* extraction of the ports, and every signal recorded by the extraction
\* of the registers, is in the signals as it was recorded.
C26_SignalImmutable ==
  (fv.loads = 1 /\ fv.parser.ret = "True")
    => /\ \A n \in DOMAIN SignalsAfterPorts :
            fv.parser.signals[n] = SignalsAfterPorts[n]
       /\ \A n \in DOMAIN SignalsAfterRegisters :
            fv.parser.signals[n] = SignalsAfterRegisters[n]

\* a is a prefix of b
IsPrefix(a, b) == Len(a) <= Len(b) /\ SubSeq(b, 1, Len(a)) = a

\* C27 (Spec).  Findings are append-only: every step of load_design,
\* load_properties and verify() leaves the security warnings and the
\* Trojan findings recorded so far in the result record, unchanged and
\* in position.
C27_AppendOnly ==
  [][/\ IsPrefix(ResultWarnings(fv), ResultWarnings(fv'))
     /\ IsPrefix(fv.trojan_findings, fv'.trojan_findings)]_vars

\* what an Exists property of the property files says
ExistsMeaning(prop, z3_vars) ==
  CASE prop = PropExists ->
         <<"exists", <<"clk">>, <<"ne", z3_vars["clk"], z3_vars["done"]>>>>
    [] prop = PropExistsNone ->
         <<"exists", <<"clk">>, <<"ne", z3_vars["clk"], z3_vars["clk"]>>>>

\* C28 (Spec).  An Exists property is decided with the polarity of the
\* asserted invariants: the step of the property loop that processes an
\* Exists property which evaluates without error adds one to
\* violations_found exactly when the constraints of the solver together
\* with the property are unsatisfiable, and records no warning and no
\* Trojan finding either way.
C28_ExistsPolarity ==
  [][(/\ fv.pc = "props"
      /\ PropertyKind(CurrentProperty(fv)) = "exists"
      /\ ~VerifyProperty(CurrentProperty(fv), fv.z3_vars, fv.solver).raised)
     => /\ fv'.violations_found =
             fv.violations_found
               + B2N(~Z3Sat(Append(fv.solver,
                                   ExistsMeaning(CurrentProperty(fv),
                                                 fv.z3_vars))))
        /\ ResultWarnings(fv') = ResultWarnings(fv)
        /\ fv'.trojan_findings = fv.trojan_findings]_vars

\* C28 happens: the two Exists properties of the list were evaluated
\* without error, the first (some clk differs from done) was satisfiable
\* and the second (some clk differs from itself) was not, and one
\* violation is counted.
C28_Witness ==
  /\ fv.verifies = 1
  /\ fv.pc = "rare"
  /\ fv.properties = <<PropExists, PropExistsNone>>
  /\ MediumWarnings(fv) = <<>>
  /\ fv.violations_found = 1

\* C29 (SpecReuse).  The counters of the result record accumulate over
\* the life of the verifier: no step lowers properties_checked,
\* violations_found or the length of trojan_findings, and when the k-th
\* verify() on unchanged inputs returns, properties_checked is k times
\* the number of loaded properties and each of the three is k times its
\* value after the first verify().
C29_CountersAccumulate ==
  [][/\ \A c \in DOMAIN Counters(fv) : Counters(fv')[c] >= Counters(fv)[c]
     /\ (fv.pc # "idle" /\ fv'.pc = "idle")
          => /\ fv'.properties_checked = fv'.verifies * Len(fv'.properties)
             /\ \A c \in DOMAIN Counters(fv) :
                  Counters(fv')[c] = fv'.verifies * first_run'[c]]_vars

\* the signals, assignments, blocks and warnings a parser extracts from
\* the design alone
OfDesignAlone == parse(NewParser, design)

\* C30 (SpecReuse).  After load_design the result holds what the design
\* declares and nothing of an earlier load_design: between the return of
\* load_design and load_properties, the signals, assignments, always
\* blocks and security warnings are those extracted from the latest
\* design alone, and the variables verify() creates are those of its
\* signals.
C30_LatestDesignOnly ==
  /\ (fv.loads > 0 /\ fv.prop_loads = 0)
       => /\ ResultSignals(fv) = OfDesignAlone.signals
          /\ fv.parser.assignments = OfDesignAlone.assignments
          /\ fv.parser.always_blocks = OfDesignAlone.always_blocks
          /\ ResultWarnings(fv) = OfDesignAlone.security_warnings
  /\ (fv.loads > 0 /\ fv.pc # "idle")
       => DOMAIN fv.z3_vars = DOMAIN OfDesignAlone.signals
====
